---- MODULE Spec2Model ----
(***************************************************************************)
(* Model of the browser session lifecycle of webscraper-toolkit            *)
(* (src/core/browser/controller.py): the class-level driver-binary         *)
(* acquisition shared by the controllers of one process, the retry loop    *)
(* of start(), and stop().                                                 *)
(*                                                                         *)
(* Three specifications share the same actions:                              *)
(*   Spec      several controllers, spread over processes and threads,     *)
(*             each making few calls, with few launch faults;              *)
(*   SpecLife  one controller making several calls, with few launch        *)
(*             faults;                                                     *)
(*   SpecRetry one controller making few calls, with enough launch faults  *)
(*             to exhaust the retry loop.                                  *)
(***************************************************************************)
EXTENDS Integers, Sequences, FiniteSets, TLC

\* ---------------------------------------------------------------- bounds
NumCtl == 2            \* controllers
MaxFaults == 1         \* Spec: failing launch attempts in one behaviour
MaxOpsLife == 3        \* SpecLife: start()/stop() calls of the controller
MaxFaultsLife == 2     \* SpecLife: failing launch attempts in one behaviour
MaxFaultsRetry == 8    \* SpecRetry: failing launch attempts in one behaviour
MaxSoftFaults == 1     \* SpecProbe: failures of stealth or of the health probe
MaxOpsAttach == 4      \* SpecAttach: calls on the controller and on its session
MaxStreamCalls == 1    \* SpecStream: calls of each thread on the downloader
MaxBlocks == 3         \* SpecUow: with blocks entered one after the other
MaxItems == 2          \* SpecPipeline: items handed to one execute()

Controllers == 1..NumCtl
Procs == 1..NumCtl      \* every controller may run in a process of its own
Tids == 1..NumCtl       \* ... and in a thread of its own
Ports == {9222, 9999}   \* random.randint(9222, 9999): the ends of the range
Locks == Procs          \* every process may hold a lock object of its own

\* ------------------------------------------------------ program constants
\* Mutation: one retry more.
max_retries_More == 7 + 1

max_retries == 7
NoDriver == 0          \* self.driver = None
NoLock == 0            \* lock not held

NoUA == "None"
DEFAULT_UA == "Mozilla/5.0 default"
CUSTOM_UA == "custom-agent"
RandomUAs == {"random-agent-1", "random-agent-2"}

NoDir == <<"none", 0, 0, 0>>
ConfigDir == <<"config", 0, 0, 0>>

VARIABLES
    config,                   \* the BrowserConfig the controllers are built from
    procOf, tidOf,            \* process and thread running each controller
    download_lock,            \* per process: the lock object of the class attribute
    ctor,                     \* per controller: position inside __init__
    lockHolder,               \* per lock object: the controller inside `with`
    chromedriver_initialized, \* per process: class attribute (completion flag)
    dns_resolved,             \* per process: class attribute
    patcherLog,               \* per process: outcome of each patcher.auto() run
    pc,                       \* per controller: position inside start()
    driver,                   \* self.driver (NoDriver or the id of a browser)
    current_user_agent,       \* self.current_user_agent
    user_data_dir,            \* self._user_data_dir
    fsDirs,                   \* directories existing in the file system
    retry, base_delay,        \* locals of start()
    attempts,                 \* launch attempts made by the current/last start()
    launched,                 \* browsers this controller has launched
    unquit,                   \* browsers launched and not yet quit
    lastOp, prevOp,           \* the last two completed or running public calls
    result,                   \* "none" | "returned" | "raised" of the last call
    returned,                 \* value returned by the last start()
    stopLog,                  \* what the last stop() did
    lastGoodUA,               \* agent resolved by the last successful start()
    opsLeft, faultsLeft,      \* remaining calls / remaining launch faults
    launch_user_agent,        \* the user-agent argument of the browser in self.driver
    softFaultsLeft,           \* remaining failures of stealth and of the health probe
    attemptLog,               \* stealth and health probe of the last attempt, if it got there
    transients,               \* failures of the running start() classified transient
    activeLog,                \* the last is_active() call of a controller
    wm_handle,                \* self.window_manager.driver (NoDriver or a browser id)
    \* ProxyManager (src/core/browser/proxy.py)
    pm_config,                \* self.config: the ProxyConfig
    pm_proxies,               \* self.proxies
    pm_out,                   \* the last call on the manager and what it returned
    \* WindowManager (src/core/browser/window.py) and the browser it drives
    wm_driver,                \* self.driver is set
    wm_original,              \* self.original_handle (NoHandle for None)
    br_windows,               \* the browser's open window handles
    br_focus,                 \* the handle the driver is switched to
    br_alive,                 \* the browser answers driver commands
    br_next,                  \* the handle the next opened window gets
    wm_out,                   \* the last call on the manager and what it returned
    \* CookieManager (src/core/browser/cookies.py), its browser and its file
    cm_driver,                \* self.driver is set
    live,                     \* the browser's live cookies
    file,                     \* the cookie file at filepath
    roundTrip,                \* what the last save_cookies() call saw and did
    cm_out,                   \* the last call on the manager and what it did
    \* BrowserSession (src/core/browser/session.py)
    bs_out,                   \* the last call on the session and what it returned
    cm_handle,                \* self.cookie_manager.driver of the controller's session
    \* _get_user_agent on its own
    ua_setting,               \* config.user_agent
    ua_out,                   \* the last two resolutions and their results
    \* FileDownloader (src/core/download/downloader.py)
    dl_chunk,                 \* self.config.chunk_size
    dl_policy,                \* self.config.retry_policy
    dl_call,                  \* per thread: the locals of the running call
    dl_out,                   \* per thread: the last completed call
    dl_left,                  \* per thread: remaining calls
    \* UnitOfWork (src/core/database/repository.py), its session and database
    uw_pc,                    \* "outside" or "inside" the with block
    uw_pending,               \* rows added to the session and not yet committed
    uw_db,                    \* committed rows
    uw_closed,                \* session.close() has been called
    uw_out,                   \* the last __exit__ and what it did
    uw_left,                  \* remaining with blocks
    \* PipelineOrchestrator (src/pipeline/orchestrator.py)
    pl_pc,                    \* "idle", "items" or "raising": position in execute()
    pl_stats,                 \* self.stats
    pl_initialized,           \* stages whose initialize() was called by this execute()
    pl_finalized,             \* stages whose finalize() was called by this execute()
    pl_fates,                 \* what happened to each item of this execute()
    pl_result,                \* processed_items
    pl_out,                   \* the last execute(); called once it is over
    pl_left                   \* items the orchestrator may still be handed

controllerVars == <<config, procOf, tidOf, download_lock, ctor, lockHolder,
          chromedriver_initialized, dns_resolved, patcherLog, pc, driver,
          current_user_agent, user_data_dir, fsDirs, retry, base_delay,
          attempts, launched, unquit, lastOp, prevOp, result, returned,
          stopLog, lastGoodUA, opsLeft, faultsLeft, launch_user_agent,
          softFaultsLeft, attemptLog, transients, activeLog, wm_handle>>

proxyVars == <<pm_config, pm_proxies, pm_out>>

windowVars == <<wm_driver, wm_original, br_windows, br_focus, br_alive, br_next, wm_out>>

cookieVars == <<cm_driver, live, file, roundTrip, cm_out>>

bridgeVars == <<bs_out, cm_handle>>

agentVars == <<ua_setting, ua_out>>

downloadVars == <<dl_chunk, dl_policy, dl_call, dl_out, dl_left>>

uowVars == <<uw_pc, uw_pending, uw_db, uw_closed, uw_out, uw_left>>

pipelineVars == <<pl_pc, pl_stats, pl_initialized, pl_finalized, pl_fates,
                  pl_result, pl_out, pl_left>>

\* the components outside src/core/browser
serviceVars == <<downloadVars, uowVars, pipelineVars>>

vars == <<controllerVars, proxyVars, windowVars, cookieVars, bridgeVars, agentVars,
          serviceVars>>

\* what the calls on one component leave alone
nonControllerVars == <<proxyVars, windowVars, cookieVars, bridgeVars, agentVars,
          serviceVars>>
nonProxyVars == <<controllerVars, windowVars, cookieVars, bridgeVars, agentVars,
          serviceVars>>
nonWindowVars == <<controllerVars, proxyVars, cookieVars, bridgeVars, agentVars,
          serviceVars>>
nonCookieVars == <<controllerVars, proxyVars, windowVars, bridgeVars, agentVars,
          serviceVars>>

\* what no call on a constructed controller changes
placementVars == <<config, procOf, tidOf, download_lock, ctor>>

\* what no constructor changes
callVars == <<lockHolder, chromedriver_initialized, dns_resolved, patcherLog, pc,
          driver, current_user_agent, user_data_dir, fsDirs, retry, base_delay,
          attempts, launched, unquit, lastOp, prevOp, result, returned,
          stopLog, lastGoodUA, opsLeft, faultsLeft, launch_user_agent,
          softFaultsLeft, attemptLog, transients, activeLog, wm_handle>>

NoStop == [ran |-> FALSE, hadDriver |-> FALSE, probeOk |-> FALSE,
           quitOk |-> FALSE, quit_called |-> FALSE, dirExisted |-> FALSE,
           rmtree_called |-> FALSE]


\* ----------------------------------------------------------- ProxyManager
\* Strings are sequences of tokens: a URL is <<scheme, address>> or
\* <<scheme, user, ":", password, "@", address>>.
TOR_ENDPOINT == "127.0.0.1:9150"
ProxyTypes == {"tor", "TOR", "http", "socks5", "ftp"}
ProxyAddresses == {"127.0.0.1:8080", "10.0.0.1:3128"}
Credentials == {"", "secret"}      \* "" stands for None

\* str.lower() on the type field
Lower(t) == IF t = "TOR" THEN "tor" ELSE t

\* config.proxy is None: the controller builds no ProxyManager
NoProxyConfig ==
    [present |-> FALSE, enabled |-> FALSE, type |-> "http",
     address |-> "127.0.0.1:8080", username |-> "", password |-> ""]

ProxyConfigs ==
    {NoProxyConfig} \cup
    [present : {TRUE}, enabled : BOOLEAN, type : ProxyTypes,
     address : ProxyAddresses, username : Credentials, password : Credentials]

\* self.proxies = None
NoProxies == [http |-> <<>>, https |-> <<>>]

\* Mutation: the tor branch builds its URL from the address field.
SetupProxies_TorFromAddress(cfg) ==
    IF ~(cfg.present /\ cfg.enabled) THEN NoProxies
    ELSE IF Lower(cfg.type) = "tor"
    THEN [http |-> <<"socks5h://", cfg.address>>,
          https |-> <<"socks5h://", cfg.address>>]
    ELSE IF Lower(cfg.type) = "http"
    THEN IF cfg.username # "" /\ cfg.password # ""
         THEN [http |-> <<"http://", cfg.username, ":", cfg.password, "@", cfg.address>>,
               https |-> <<"https://", cfg.username, ":", cfg.password, "@", cfg.address>>]
         ELSE [http |-> <<"http://", cfg.address>>,
               https |-> <<"https://", cfg.address>>]
    ELSE IF Lower(cfg.type) = "socks5"
    THEN [http |-> <<"socks5://", cfg.address>>,
          https |-> <<"socks5://", cfg.address>>]
    ELSE NoProxies

\* __init__ and _setup_proxies: the value of self.proxies after construction
SetupProxies(cfg) ==
    IF ~(cfg.present /\ cfg.enabled) THEN NoProxies
    ELSE IF Lower(cfg.type) = "tor"
    THEN [http |-> <<"socks5h://", TOR_ENDPOINT>>,
          https |-> <<"socks5h://", TOR_ENDPOINT>>]
    ELSE IF Lower(cfg.type) = "http"
    THEN IF cfg.username # "" /\ cfg.password # ""
         THEN [http |-> <<"http://", cfg.username, ":", cfg.password, "@", cfg.address>>,
               https |-> <<"https://", cfg.username, ":", cfg.password, "@", cfg.address>>]
         ELSE [http |-> <<"http://", cfg.address>>,
               https |-> <<"https://", cfg.address>>]
    ELSE IF Lower(cfg.type) = "socks5"
    THEN [http |-> <<"socks5://", cfg.address>>,
          https |-> <<"socks5://", cfg.address>>]
    ELSE NoProxies

\* str.startswith on a URL, decided by its scheme token
StartsWith(url, prefix) ==
    /\ url # <<>>
    /\ \/ prefix = "socks5" /\ url[1] \in {"socks5://", "socks5h://"}
       \/ prefix = "http" /\ url[1] \in {"http://", "https://"}

\* .replace('socks5h://', 'socks5://').replace('socks5://', 'socks5://')
ReplaceScheme(url) ==
    [i \in 1..Len(url) |-> IF url[i] = "socks5h://" THEN "socks5://" ELSE url[i]]

\* get_proxy_arguments
ProxyArguments(cfg, proxies) ==
    IF ~cfg.present \/ ~cfg.enabled \/ proxies = NoProxies THEN <<>>
    ELSE IF StartsWith(proxies.http, "socks5")
    THEN << <<"--proxy-server=">> \o ReplaceScheme(proxies.http) >>
    ELSE IF StartsWith(proxies.http, "http")
    THEN << <<"--proxy-server=">> \o proxies.http >>
    ELSE <<>>

\* get_requests_proxies
RequestsProxies(proxies) == proxies

\* Mutation: is_enabled() looks at the configuration only.
ProxyIsEnabled_FlagOnly(cfg, proxies) ==
    cfg.present /\ cfg.enabled

\* is_enabled
ProxyIsEnabled(cfg, proxies) ==
    cfg.present /\ cfg.enabled /\ proxies # NoProxies

NoProxyCall ==
    [op |-> "none", args |-> <<>>, proxies |-> NoProxies, enabled |-> FALSE]

\* The controllers are built from a configuration without proxy.
ProxyIdle ==
    /\ pm_config = NoProxyConfig
    /\ pm_proxies = SetupProxies(NoProxyConfig)
    /\ pm_out = NoProxyCall

GetProxyArguments ==
    /\ pm_out' = [NoProxyCall EXCEPT !.op = "get_proxy_arguments",
                                     !.args = ProxyArguments(pm_config, pm_proxies)]
    /\ UNCHANGED <<nonProxyVars, pm_config, pm_proxies>>

GetRequestsProxies ==
    /\ pm_out' = [NoProxyCall EXCEPT !.op = "get_requests_proxies",
                                     !.proxies = RequestsProxies(pm_proxies)]
    /\ UNCHANGED <<nonProxyVars, pm_config, pm_proxies>>

IsEnabled ==
    /\ pm_out' = [NoProxyCall EXCEPT !.op = "is_enabled",
                                     !.enabled = ProxyIsEnabled(pm_config, pm_proxies)]
    /\ UNCHANGED <<nonProxyVars, pm_config, pm_proxies>>


\* ---------------------------------------------------------- WindowManager
MaxHandles == 3
Handles == 1..MaxHandles
NoHandle == 0

\* how another party interferes with one ensure_active() call: not at all, by
\* closing the chosen window before the switch, or by closing it after the
\* switch and before window_handles is read again
Races == {"none", "target_closed", "closed_after_switch"}

\* driver.window_handles lists the open windows in the order they were opened
FirstHandle(wins) == CHOOSE h \in wins : \A g \in wins : h <= g
LastHandle(wins) == CHOOSE h \in wins : \A g \in wins : h >= g

NoWindowCall ==
    [op |-> "none", ret |-> FALSE, count |-> 0, raised |-> FALSE,
     before |-> {}, original_before |-> NoHandle, stuck |-> {}, race |-> "none"]

\* The browser right after its launch: one window, focused.
WindowIdle ==
    /\ wm_driver = FALSE
    /\ wm_original = NoHandle
    /\ br_windows = {1}
    /\ br_focus = 1
    /\ br_alive = TRUE
    /\ br_next = 2
    /\ wm_out = NoWindowCall

\* Mutation: the branch for an open original returns without switching to it.
EnsureActiveEffect_NoSwitch(wins, foc, orig, race) ==
    IF orig # NoHandle /\ orig \in wins
    THEN [windows |-> wins, focus |-> foc, original |-> orig,
          ret |-> TRUE, raised |-> FALSE]
    ELSE IF wins # {}
    THEN [windows |-> wins, focus |-> FirstHandle(wins),
          original |-> FirstHandle(wins), ret |-> TRUE, raised |-> FALSE]
    ELSE [windows |-> wins, focus |-> foc, original |-> orig,
          ret |-> FALSE, raised |-> FALSE]

\* Mutation: the fallback branch switches to the first window but keeps the
\* closed handle as the tracked original.
EnsureActiveEffect_NoAdopt(wins, foc, orig, race) ==
    IF orig # NoHandle /\ orig \in wins
    THEN [windows |-> wins, focus |-> orig, original |-> orig,
          ret |-> TRUE, raised |-> FALSE]
    ELSE IF wins # {}
    THEN [windows |-> wins, focus |-> FirstHandle(wins),
          original |-> orig, ret |-> TRUE, raised |-> FALSE]
    ELSE [windows |-> wins, focus |-> foc, original |-> orig,
          ret |-> FALSE, raised |-> FALSE]

\* The body of ensure_active() below the driver check, for a browser that
\* answers: the windows, focus and tracked original it leaves, what it returns
\* and whether an exception leaves the call.
EnsureActiveEffect(wins, foc, orig, race) ==
    IF orig # NoHandle /\ orig \in wins
    THEN IF race = "target_closed"
         THEN \* switch_to.window raises NoSuchWindowException
              [windows |-> wins \ {orig}, focus |-> foc, original |-> orig,
               ret |-> FALSE, raised |-> FALSE]
         ELSE [windows |-> wins, focus |-> orig, original |-> orig,
               ret |-> TRUE, raised |-> FALSE]
    ELSE IF wins # {}
    THEN IF race = "target_closed"
         THEN [windows |-> wins \ {FirstHandle(wins)}, focus |-> foc,
               original |-> orig, ret |-> FALSE, raised |-> FALSE]
         ELSE IF race = "closed_after_switch"
         THEN LET rest == wins \ {FirstHandle(wins)} IN
              IF rest = {}
              THEN \* window_handles[0] on an empty list: IndexError
                   [windows |-> rest, focus |-> FirstHandle(wins),
                    original |-> orig, ret |-> FALSE, raised |-> TRUE]
              ELSE [windows |-> rest, focus |-> FirstHandle(wins),
                    original |-> FirstHandle(rest), ret |-> TRUE, raised |-> FALSE]
         ELSE [windows |-> wins, focus |-> FirstHandle(wins),
               original |-> FirstHandle(wins), ret |-> TRUE, raised |-> FALSE]
    ELSE [windows |-> wins, focus |-> foc, original |-> orig,
          ret |-> FALSE, raised |-> FALSE]

\* set_driver
SetDriver ==
    /\ wm_driver' = TRUE
    /\ IF ~br_alive
       THEN \* driver.window_handles raises after self.driver was assigned
            /\ wm_out' = [NoWindowCall EXCEPT !.op = "set_driver", !.raised = TRUE]
            /\ UNCHANGED wm_original
       ELSE /\ wm_original' = IF br_windows # {} THEN FirstHandle(br_windows)
                              ELSE wm_original
            /\ wm_out' = [NoWindowCall EXCEPT !.op = "set_driver"]
    /\ UNCHANGED <<nonWindowVars, br_windows, br_focus, br_alive, br_next>>

\* ensure_active
EnsureActive(race) ==
    LET call == [NoWindowCall EXCEPT !.op = "ensure_active",
                                     !.before = br_windows,
                                     !.original_before = wm_original]
    IN
    IF ~wm_driver
    THEN /\ race = "none"
         /\ wm_out' = call
         /\ UNCHANGED <<nonWindowVars, wm_driver, wm_original, br_windows,
                        br_focus, br_alive, br_next>>
    ELSE IF ~br_alive
    THEN \* window_handles raises WebDriverException; only
         \* NoSuchWindowException is caught
         /\ race = "none"
         /\ wm_out' = [call EXCEPT !.raised = TRUE]
         /\ UNCHANGED <<nonWindowVars, wm_driver, wm_original, br_windows,
                        br_focus, br_alive, br_next>>
    ELSE LET e == EnsureActiveEffect(br_windows, br_focus, wm_original, race) IN
         /\ race = "closed_after_switch" =>
                ~(wm_original # NoHandle /\ wm_original \in br_windows)
         /\ race # "none" => br_windows # {}
         /\ br_windows' = e.windows
         /\ br_focus' = e.focus
         /\ wm_original' = e.original
         /\ wm_out' = [call EXCEPT !.ret = e.ret, !.raised = e.raised, !.race = race]
         /\ UNCHANGED <<nonWindowVars, wm_driver, br_alive, br_next>>

\* close_extra_windows; stuck are the windows whose close() raises
\* Mutation: the first window that does not close ends the loop.
ClosedByLoop_StopsAtFailure(extras, stuck) ==
    {h \in extras : \A g \in stuck : h < g}

\* the windows the loop of close_extra_windows closes: the inner try/except
\* keeps the loop going past a window that fails to close
ClosedByLoop(extras, stuck) == extras \ stuck

CloseExtraWindows(stuck, race) ==
    LET call == [NoWindowCall EXCEPT !.op = "close_extra_windows",
                                     !.before = br_windows,
                                     !.original_before = wm_original]
    IN
    IF ~wm_driver \/ wm_original = NoHandle \/ ~br_alive
    THEN \* return 0 early, or window_handles raises into the outer handler
         /\ stuck = {} /\ race = "none"
         /\ wm_out' = call
         /\ UNCHANGED <<nonWindowVars, wm_driver, wm_original, br_windows,
                        br_focus, br_alive, br_next>>
    ELSE LET extras == br_windows \ {wm_original}
             closed == ClosedByLoop(extras, stuck)
             left == br_windows \ closed
             focusLoop == IF extras = {} THEN br_focus ELSE LastHandle(extras)
             e == EnsureActiveEffect(left, focusLoop, wm_original, race)
         IN
         /\ stuck \subseteq extras
         /\ race = "closed_after_switch" =>
                ~(wm_original # NoHandle /\ wm_original \in left)
         /\ race # "none" => left # {}
         /\ br_windows' = e.windows
         /\ br_focus' = e.focus
         /\ wm_original' = e.original
         /\ wm_out' = [call EXCEPT !.count = Cardinality(closed),
                                   !.stuck = stuck, !.race = race]
         /\ UNCHANGED <<nonWindowVars, wm_driver, br_alive, br_next>>

\* get_window_count
WindowCount ==
    IF ~wm_driver \/ ~br_alive THEN 0 ELSE Cardinality(br_windows)

GetWindowCount ==
    /\ wm_out' = [NoWindowCall EXCEPT !.op = "get_window_count",
                                      !.before = br_windows,
                                      !.original_before = wm_original,
                                      !.count = WindowCount]
    /\ UNCHANGED <<nonWindowVars, wm_driver, wm_original, br_windows, br_focus,
                   br_alive, br_next>>

\* is_original_window_active: current_window_handle raises when the browser
\* is gone or the focused window was closed, and the handler returns False
OriginalWindowActive ==
    /\ wm_driver
    /\ wm_original # NoHandle
    /\ br_alive
    /\ br_focus \in br_windows
    /\ br_focus = wm_original

IsOriginalWindowActive ==
    /\ wm_out' = [NoWindowCall EXCEPT !.op = "is_original_window_active",
                                      !.before = br_windows,
                                      !.original_before = wm_original,
                                      !.ret = OriginalWindowActive]
    /\ UNCHANGED <<nonWindowVars, wm_driver, wm_original, br_windows, br_focus,
                   br_alive, br_next>>

\* The page or the user opens a window; the driver's focus stays.
OpenWindow ==
    /\ br_alive
    /\ br_next <= MaxHandles
    /\ br_windows' = br_windows \cup {br_next}
    /\ br_next' = br_next + 1
    /\ wm_out' = NoWindowCall
    /\ UNCHANGED <<nonWindowVars, wm_driver, wm_original, br_focus, br_alive>>

\* The page or the user closes a window between two calls.
WindowClosed(h) ==
    /\ br_alive
    /\ h \in br_windows
    /\ br_windows' = br_windows \ {h}
    /\ wm_out' = NoWindowCall
    /\ UNCHANGED <<nonWindowVars, wm_driver, wm_original, br_focus, br_alive, br_next>>

\* The browser process dies or stops answering.
BrowserDies ==
    /\ br_alive
    /\ br_alive' = FALSE
    /\ wm_out' = NoWindowCall
    /\ UNCHANGED <<nonWindowVars, wm_driver, wm_original, br_windows, br_focus, br_next>>


\* ---------------------------------------------------------- CookieManager
MaxRecords == 2
PageDomain == "a.test"

\* A live cookie; the browser keeps one cookie per (name, domain, path).
Cookie(n, v, d, p) == [name |-> n, value |-> v, domain |-> d, path |-> p]

SameCookieId(c, d) ==
    c.name = d.name /\ c.domain = d.domain /\ c.path = d.path

PutCookie(cookies, c) ==
    {d \in cookies : ~SameCookieId(d, c)} \cup {c}

\* the cookies a page of the domain sets
SiteCookies ==
    {Cookie(n, v, PageDomain, "/") : n \in {"sid", "tok"}, v \in {"abc", "xyz"}}

\* the cookie the page sets by itself when it is refreshed
RefreshCookie == Cookie("tok", "xyz", PageDomain, "/")

Pairs(cookies) == {<<c.name, c.value>> : c \in cookies}

\* driver.get_cookies() as a list
RECURSIVE CookieList(_)
CookieList(cookies) ==
    IF cookies = {} THEN <<>>
    ELSE LET c == CHOOSE x \in cookies :
                      \A y \in cookies : x.name = "sid" \/ y.name # "sid"
         IN <<c>> \o CookieList(cookies \ {c})

\* One element of the JSON list in the file: a dict with the given keys, or a
\* number or null (neither supports `in`).
DictRecord(keys, n, v, d) ==
    [kind |-> "dict", keys |-> keys, name |-> n, value |-> v, domain |-> d]
NumberRecord ==
    [kind |-> "number", keys |-> {}, name |-> "", value |-> "", domain |-> ""]

\* json.dump of what get_cookies() returned
SavedRecord(c) ==
    DictRecord({"name", "value", "domain", "path", "secure", "httpOnly"},
               c.name, c.value, c.domain)

SavedRecords(cookies) ==
    [i \in 1..Cardinality(cookies) |-> SavedRecord(CookieList(cookies)[i])]

\* records of files written by other programs
ForeignRecords ==
    { DictRecord({"name", "value", "domain", "path"}, "sid", "abc", "b.test"),
      DictRecord({"name", "value", "domain", "sameParty"}, "tok", "abc", PageDomain),
      DictRecord({"name", "domain"}, "sid", "", PageDomain),
      NumberRecord }

MissingFile == [kind |-> "missing", records |-> <<>>]
InvalidJson == [kind |-> "invalid", records |-> <<>>]
\* valid JSON that is not a list: a number or null
ScalarJson == [kind |-> "scalar", records |-> <<>>]
ListFile(records) == [kind |-> "list", records |-> records]

ForeignFiles ==
    {InvalidJson, ScalarJson} \cup
    {ListFile(r) : r \in UNION {[1..n -> ForeignRecords] : n \in 0..MaxRecords}}

\* Mutation: the filter lets a further stored key through.
allowed_keys_More ==
    {"name", "value", "path", "secure", "httpOnly", "sameSite", "expiry", "sameParty"}

allowed_keys == {"name", "value", "path", "secure", "httpOnly", "sameSite", "expiry"}

\* Mutation: clearing leaves the cookies in place.
DeleteAll_Keeps(cookies) == cookies

\* driver.delete_all_cookies() when it succeeds
DeleteAll(cookies) == {}

DriverCall(call, keys, n) == [call |-> call, keys |-> keys, name |-> n]

\* Mutation: the cookies are cleared before the page is loaded.
ClearCalls_First(nav) == <<DriverCall("delete_all_cookies", {}, "")>> \o nav

\* the driver calls of load_cookies up to `self.driver.delete_all_cookies()`,
\* which follows `self.driver.get(domain)`
ClearCalls(nav) == Append(nav, DriverCall("delete_all_cookies", {}, ""))

\* One iteration of the loop of load_cookies() over record r; rejected says
\* that the browser refuses the injection.
InjectRecord(r, rejected, st) ==
    IF r.kind = "number"
    THEN \* `'name' in cookie` raises, and cookie.get in the handler raises again
         [st EXCEPT !.attempted = st.attempted + 1, !.aborted = TRUE]
    ELSE IF r.kind = "dict" /\ "name" \in r.keys /\ "value" \in r.keys
    THEN LET keys == (r.keys \ {"domain"}) \cap allowed_keys IN
         IF rejected
         THEN [st EXCEPT !.attempted = st.attempted + 1,
                         !.calls = Append(st.calls,
                             DriverCall("add_cookie", keys, r.name))]
         ELSE [st EXCEPT !.live = PutCookie(st.live, Cookie(r.name, r.value, PageDomain, "/")),
                         !.count = st.count + 1,
                         !.attempted = st.attempted + 1,
                         !.calls = Append(st.calls,
                             DriverCall("add_cookie", keys, r.name))]
    ELSE \* a dict without name or value: skipped
         [st EXCEPT !.attempted = st.attempted + 1]

\* the loop of load_cookies() from record i on
RECURSIVE InjectFrom(_, _, _, _)
InjectFrom(records, i, rejected, st) ==
    IF i > Len(records) \/ st.aborted THEN st
    ELSE InjectFrom(records, i + 1, rejected,
                    InjectRecord(records[i], i \in rejected, st))

NoCookieCall ==
    [op |-> "none", raised |-> FALSE, before |-> {}, file_before |-> MissingFile,
     fault |-> "none", calls |-> <<>>, count |-> 0, attempted |-> 0,
     aborted |-> FALSE, looped |-> FALSE, reported |-> FALSE,
     rejected |-> {}, site |-> FALSE, result |-> {}]

NoRoundTrip == [valid |-> FALSE, wrote |-> FALSE, saved |-> {}]

CookieIdle ==
    /\ cm_driver = FALSE
    /\ live = {}
    /\ file = MissingFile
    /\ roundTrip = NoRoundTrip
    /\ cm_out = NoCookieCall

\* set_driver
CookieSetDriver ==
    /\ cm_driver' = TRUE
    /\ cm_out' = [NoCookieCall EXCEPT !.op = "set_driver"]
    /\ UNCHANGED <<nonCookieVars, live, file, roundTrip>>

SaveFaults == {"none", "get_cookies", "open", "dump"}

\* the body of save_cookies; attached says that self.driver is set
SaveCookiesOn(attached, fault) ==
    LET call == [NoCookieCall EXCEPT !.op = "save_cookies", !.before = live,
                                     !.file_before = file]
    IN
    IF ~attached
    THEN /\ fault = "none"
         /\ cm_out' = call
         /\ UNCHANGED <<live, file, roundTrip>>
    ELSE /\ file' = CASE fault = "none" -> ListFile(SavedRecords(live))
                      [] fault = "dump" -> InvalidJson   \* opened with 'w', cut short
                      [] OTHER -> file
         /\ roundTrip' = [valid |-> TRUE, wrote |-> fault = "none",
                          saved |-> Pairs(live)]
         /\ cm_out' = [call EXCEPT !.fault = fault,
                                   !.calls = <<DriverCall("get_cookies", {}, "")>>]
         /\ UNCHANGED live

\* save_cookies
SaveCookies(fault) ==
    /\ SaveCookiesOn(cm_driver, fault)
    /\ UNCHANGED <<nonCookieVars, cm_driver>>

LoadFaults == {"none", "get", "delete_all_cookies", "refresh"}

\* the body of load_cookies(filepath, PageDomain); attached says that
\* self.driver is set and site that the refreshed page sets a cookie of its own
LoadCookiesOn(attached, fault, rejected, site) ==
    LET call == [NoCookieCall EXCEPT !.op = "load_cookies", !.before = live,
                                     !.file_before = file]
        nav == <<DriverCall("get", {}, "")>>
        del == ClearCalls(nav)
    IN
    /\ UNCHANGED <<file, roundTrip>>
    /\ IF ~attached \/ file.kind \in {"missing", "invalid"}
       THEN \* early return, or json.load raises JSONDecodeError
            /\ fault = "none" /\ rejected = {} /\ ~site
            /\ cm_out' = call
            /\ UNCHANGED live
       ELSE IF fault = "get"
       THEN /\ rejected = {} /\ ~site
            /\ cm_out' = [call EXCEPT !.fault = fault, !.calls = nav]
            /\ UNCHANGED live
       ELSE IF fault = "delete_all_cookies"
       THEN /\ rejected = {} /\ ~site
            /\ cm_out' = [call EXCEPT !.fault = fault, !.calls = del]
            /\ UNCHANGED live
       ELSE IF file.kind = "scalar"
       THEN \* `for cookie in cookies` raises TypeError
            /\ fault = "none" /\ rejected = {} /\ ~site
            /\ live' = DeleteAll(live)
            /\ cm_out' = [call EXCEPT !.calls = del]
       ELSE LET st == InjectFrom(file.records, 1, rejected,
                          [live |-> DeleteAll(live), count |-> 0, attempted |-> 0,
                           aborted |-> FALSE, calls |-> del])
            IN
            /\ rejected \subseteq
                   {i \in 1..Len(file.records) :
                        /\ file.records[i].kind = "dict"
                        /\ {"name", "value"} \subseteq file.records[i].keys}
            /\ IF st.aborted
               THEN /\ fault = "none" /\ ~site
                    /\ live' = st.live
                    /\ cm_out' = [call EXCEPT !.calls = st.calls,
                                              !.count = st.count,
                                              !.attempted = st.attempted,
                                              !.aborted = TRUE,
                                              !.looped = TRUE,
                                              !.rejected = rejected]
               ELSE IF fault = "refresh"
               THEN /\ ~site
                    /\ live' = st.live
                    /\ cm_out' = [call EXCEPT !.fault = fault,
                                              !.calls = Append(st.calls,
                                                  DriverCall("refresh", {}, "")),
                                              !.count = st.count,
                                              !.attempted = st.attempted,
                                              !.looped = TRUE,
                                              !.rejected = rejected]
               ELSE /\ live' = IF site THEN PutCookie(st.live, RefreshCookie)
                               ELSE st.live
                    /\ cm_out' = [call EXCEPT !.calls = Append(st.calls,
                                                  DriverCall("refresh", {}, "")),
                                              !.count = st.count,
                                              !.attempted = st.attempted,
                                              !.looped = TRUE,
                                              !.reported = TRUE,
                                              !.rejected = rejected,
                                              !.site = site]

\* load_cookies
LoadCookies(fault, rejected, site) ==
    /\ LoadCookiesOn(cm_driver, fault, rejected, site)
    /\ UNCHANGED <<nonCookieVars, cm_driver>>

\* get_cookies
CookieGetCookies(fails) ==
    /\ fails => cm_driver
    /\ cm_out' = [NoCookieCall EXCEPT
                      !.op = "get_cookies", !.before = live, !.file_before = file,
                      !.fault = IF fails THEN "get_cookies" ELSE "none",
                      !.result = IF cm_driver /\ ~fails THEN live ELSE {}]
    /\ UNCHANGED <<nonCookieVars, cm_driver, live, file, roundTrip>>

\* delete_all_cookies
CookieDeleteAllCookies(fails) ==
    /\ fails => cm_driver
    /\ live' = IF cm_driver /\ ~fails THEN DeleteAll(live) ELSE live
    /\ cm_out' = [NoCookieCall EXCEPT
                      !.op = "delete_all_cookies", !.before = live,
                      !.file_before = file,
                      !.fault = IF fails THEN "delete_all_cookies" ELSE "none"]
    /\ UNCHANGED <<nonCookieVars, cm_driver, file, roundTrip>>

\* A page or a script sets a cookie between two calls.
SiteSetsCookie(c) ==
    /\ live' = PutCookie(live, c)
    /\ cm_out' = NoCookieCall
    /\ UNCHANGED <<nonCookieVars, cm_driver, file, roundTrip>>

\* Another program writes the cookie file where none was.
FileWritten(f) ==
    /\ file = MissingFile
    /\ file' = f
    /\ roundTrip' = NoRoundTrip
    /\ cm_out' = NoCookieCall
    /\ UNCHANGED <<nonCookieVars, cm_driver, live>>


\* ---------------------------------------------------------- BrowserSession
\* what driver.get_cookies() may return to the session
BridgeCookieSets ==
    { {},
      {Cookie("sid", "abc", PageDomain, "/")},
      {Cookie("sid", "abc", PageDomain, "/"), Cookie("sid", "xyz", PageDomain, "/app")} }

\* the proxy configurations of the controllers the session is built on
BridgeProxyConfigs ==
    { NoProxyConfig,
      [NoProxyConfig EXCEPT !.present = TRUE, !.enabled = TRUE, !.type = "tor"],
      [NoProxyConfig EXCEPT !.present = TRUE, !.enabled = TRUE, !.type = "ftp"],
      [NoProxyConfig EXCEPT !.present = TRUE] }

\* session.cookies.set(name, value, domain=...): the jar keeps one cookie per
\* (domain, path, name), and the path of every cookie set this way is "/"
JarSet(store, c) ==
    {e \in store : ~(e.name = c.name /\ e.domain = c.domain)}
        \cup {Cookie(c.name, c.value, c.domain, "/")}

RECURSIVE JarFrom(_, _, _)
JarFrom(list, i, store) ==
    IF i > Len(list) THEN store
    ELSE JarFrom(list, i + 1, JarSet(store, list[i]))

NoBridgeCall ==
    [op |-> "none", raised |-> FALSE, error |-> "none", handle |-> FALSE,
     failed |-> FALSE, cookies |-> {}, store |-> {}, ua |-> NoUA,
     browser_ua |-> NoUA, proxies |-> NoProxies, result |-> {}]

\* no call yet on a session built on the controller before any start():
\* `self.cookie_manager = CookieManager()`
BridgeIdle ==
    /\ bs_out = NoBridgeCall
    /\ cm_handle = [c \in Controllers |-> NoDriver]

\* _get_user_agent has not been called on its own.
NoAgentCall ==
    [calls |-> 0, source |-> "none", value |-> NoUA,
     prev_source |-> "none", prev_value |-> NoUA]

AgentIdle ==
    /\ ua_setting = NoUA
    /\ ua_out = NoAgentCall

\* ------------------------------------------------------- FileDownloader
DownloadThreads == {1, 2}

\* DownloadConfig.chunk_size
DEFAULT_CHUNK == 8192

\* RetryPolicy: base_delay, max_delay and exponential_base as in the defaults
RetryPolicy(n) ==
    [max_retries |-> n, base_delay |-> 1, max_delay |-> 30, exponential_base |-> 2]

NoDownload ==
    [pc |-> "idle", op |-> "none", attempt |-> 0, sleeps |-> 0, slept |-> 0,
     original_chunk_size |-> 0]

NoDownloadCall ==
    [op |-> "none", ret |-> FALSE, raised |-> FALSE, attempts |-> 0,
     sleeps |-> 0, succeeded |-> FALSE, slept |-> 0]

DownloadIdle ==
    /\ dl_chunk = DEFAULT_CHUNK
    /\ dl_policy = RetryPolicy(3)
    /\ dl_call = [t \in DownloadThreads |-> NoDownload]
    /\ dl_out = [t \in DownloadThreads |-> NoDownloadCall]
    /\ dl_left = [t \in DownloadThreads |-> 0]

\* ----------------------------------------------------------- UnitOfWork
Rows == {"r1", "r2"}

NoExit ==
    [called |-> FALSE, block_raised |-> FALSE, did |-> "none",
     commit_failed |-> FALSE, rollback_failed |-> FALSE, raised |-> FALSE,
     close_called |-> FALSE]

UowIdle ==
    /\ uw_pc = "outside"
    /\ uw_pending = {}
    /\ uw_db = {}
    /\ uw_closed = FALSE
    /\ uw_out = NoExit
    /\ uw_left = 0

\* -------------------------------------------------- PipelineOrchestrator
\* `self.stats = {...}` in __init__
NoStats ==
    [total_items |-> 0, processed_items |-> 0, dropped_items |-> 0,
     error_items |-> 0]

NoExecute ==
    [called |-> FALSE, raised |-> FALSE, items |-> 0, result |-> <<>>,
     fates |-> <<>>, initialized |-> {}, finalized |-> {}, init_failed |-> 0,
     final_failed |-> {}, stats_before |-> NoStats]

PipelineIdle ==
    /\ pl_pc = "idle"
    /\ pl_stats = NoStats
    /\ pl_initialized = {}
    /\ pl_finalized = {}
    /\ pl_fates = <<>>
    /\ pl_result = <<>>
    /\ pl_out = NoExecute
    /\ pl_left = 0

ServicesIdle == DownloadIdle /\ UowIdle /\ PipelineIdle

\* ------------------------------------------------------------------ Init
NoActiveCall ==
    [ret |-> FALSE, raised |-> FALSE, probe_ok |-> TRUE,
     driver_before |-> NoDriver, agent_before |-> NoUA]

\* the running start() has made no attempt that reached the stealth step
NoAttempt == [made |-> FALSE, stealth_ok |-> TRUE, health_ok |-> TRUE, handle |-> NoDriver]

ControllerFields ==
    /\ lockHolder = [l \in Locks |-> NoLock]
    /\ chromedriver_initialized = [p \in Procs |-> FALSE]
    /\ dns_resolved = [p \in Procs |-> FALSE]
    /\ patcherLog = [p \in Procs |-> <<>>]
    /\ pc = [c \in Controllers |-> "idle"]
    /\ driver = [c \in Controllers |-> NoDriver]
    /\ current_user_agent = [c \in Controllers |-> NoUA]
    /\ user_data_dir = [c \in Controllers |-> NoDir]
    /\ fsDirs = {}
    /\ retry = [c \in Controllers |-> 0]
    /\ base_delay = [c \in Controllers |-> 1]
    /\ attempts = [c \in Controllers |-> 0]
    /\ launched = [c \in Controllers |-> 0]
    /\ unquit = [c \in Controllers |-> 0]
    /\ lastOp = [c \in Controllers |-> "none"]
    /\ prevOp = [c \in Controllers |-> "none"]
    /\ result = [c \in Controllers |-> "none"]
    /\ returned = [c \in Controllers |-> NoDriver]
    /\ stopLog = [c \in Controllers |-> NoStop]
    /\ lastGoodUA = [c \in Controllers |-> NoUA]
    /\ launch_user_agent = [c \in Controllers |-> NoUA]
    /\ attemptLog = [c \in Controllers |-> NoAttempt]
    /\ transients = [c \in Controllers |-> 0]
    /\ activeLog = [c \in Controllers |-> NoActiveCall]
    /\ wm_handle = [c \in Controllers |-> NoDriver]

\* Every controller has been constructed and none has been called.
InitController ==
    /\ ControllerFields
    /\ ctor = [c \in Controllers |-> "built"]

\* The state of the components a specification does not exercise.
OthersIdle ==
    ProxyIdle /\ WindowIdle /\ CookieIdle /\ BridgeIdle /\ AgentIdle /\ ServicesIdle

\* BrowserConfig: user_agent is unset, "auto" or an explicit string;
\* user_data_dir is unset or an explicit path.
Configs ==
    [user_agent : {NoUA, "auto", CUSTOM_UA}, user_data_dir : {NoDir, ConfigDir}]

\* _initialize_class_variables has run in every process: each process holds
\* its own multiprocessing.Lock(), or (processes forked after the first
\* construction) all hold the one lock object of the parent.
LockPlacements ==
    {[p \in Procs |-> p], [p \in Procs |-> 1]}

\* Placements of controllers, up to renaming: controller 1 is in process 1,
\* and each controller is in a process already used or in the next unused
\* one; likewise for the threads of the controllers of one process.
CanonicalProcs(f) ==
    /\ f[1] = 1
    /\ \A c \in Controllers \ {1} : \E d \in 1..(c - 1) : f[c] <= f[d] + 1

CanonicalTids(f, g) ==
    \A c \in Controllers :
        LET before == {d \in 1..(c - 1) : f[d] = f[c]}
        IN  IF before = {} THEN g[c] = 1
            ELSE \E d \in before : g[c] <= g[d] + 1

\* Every controller makes one call, in a process and thread of the placement;
\* the user agent is the default one.
Init ==
    /\ InitController
    /\ OthersIdle
    /\ config \in {cfg \in Configs : cfg.user_agent = NoUA}
    /\ procOf \in {f \in [Controllers -> Procs] : CanonicalProcs(f)}
    /\ tidOf \in {g \in [Controllers -> Tids] : CanonicalTids(procOf, g)}
    /\ download_lock \in LockPlacements
    /\ opsLeft = [c \in Controllers |-> 1]
    /\ faultsLeft = MaxFaults
    /\ softFaultsLeft = 0

\* One controller is used; the others are constructed and never called.
InitSingle(ops, faults) ==
    /\ softFaultsLeft = 0
    /\ InitController
    /\ OthersIdle
    /\ config \in Configs
    /\ procOf = [c \in Controllers |-> 1]
    /\ tidOf = [c \in Controllers |-> 1]
    /\ download_lock = [p \in Procs |-> p]
    /\ opsLeft = [c \in Controllers |-> IF c = 1 THEN ops ELSE 0]
    /\ faultsLeft = faults

InitLife == InitSingle(MaxOpsLife, MaxFaultsLife)

\* Two calls: a start() that may exhaust its retries, and the call after it.
InitRetry == InitSingle(2, MaxFaultsRetry)

\* ------------------------------------------------------------- helpers
\* Calls are synchronous: a thread is inside at most one call at a time.
ThreadFree(c) ==
    \A d \in Controllers \ {c} :
        (procOf[d] = procOf[c] /\ tidOf[d] = tidOf[c]) =>
            pc[d] = "idle" /\ ctor[d] # "creating"

\* _get_user_agent: the values one call can return under the configuration.
\* the random-agent source: not installed, raising, or returning an agent
AgentSources == {"unavailable", "failing"} \cup RandomUAs

\* str.lower() on the user_agent setting
LowerAgent(ua) == IF ua \in {"AUTO", "Auto"} THEN "auto" ELSE ua

\* Mutation: a failing source leaves the agent unset.
ResolveUserAgent_NoFallback(ua, source) ==
    IF ua # NoUA /\ ua # ""
    THEN IF LowerAgent(ua) = "auto"
         THEN IF source \in RandomUAs THEN source
              ELSE IF source = "failing" THEN NoUA
              ELSE DEFAULT_UA
         ELSE ua
    ELSE DEFAULT_UA

\* _get_user_agent for one state of the random-agent source
ResolveUserAgent(ua, source) ==
    IF ua # NoUA /\ ua # ""
    THEN IF LowerAgent(ua) = "auto"
         THEN IF source \in RandomUAs THEN source ELSE DEFAULT_UA
         ELSE ua
    ELSE DEFAULT_UA

\* the agents _get_user_agent can return for a configuration
GetUserAgent(cfg) ==
    {ResolveUserAgent(cfg.user_agent, source) : source \in AgentSources}

\* the values of config.user_agent: unset, empty, "auto" in three letter
\* cases, an explicit agent
AgentSettings == {NoUA, "", "auto", "AUTO", "Auto", CUSTOM_UA}

\* one call of _get_user_agent
ResolveAgent(source) ==
    /\ ua_out.calls < 2
    /\ ua_out' = [calls |-> ua_out.calls + 1,
                  source |-> source,
                  value |-> ResolveUserAgent(ua_setting, source),
                  prev_source |-> ua_out.source,
                  prev_value |-> ua_out.value]
    /\ UNCHANGED <<controllerVars, proxyVars, windowVars, cookieVars, bridgeVars,
                   serviceVars, ua_setting>>

\* Mutation: base_delay is doubled after every failure.
NextDelay_Always(d, transient) == d * 2

\* base_delay *= 2 when the error message matches a keyword
NextDelay(d, transient) == IF transient THEN d * 2 ELSE d

\* random.uniform(0, 1): the ends of the range
Jitters == {0, 1}

\* `if retry > 0: delay = base_delay + random.uniform(0, 1); time.sleep(delay)`
\* at the top of an iteration: the delays it may sleep (none: no sleep)
SleepDelays(r, d) == IF r > 0 THEN {d + j : j \in Jitters} ELSE {}

\* ------------------------------------------------ start(): phases 1 and 2
\* Mutation: phase 2 is skipped altogether.
OuterCheck_Skipped(c) == "setup"

\* `if not WebDriverController._chromedriver_initialized:` (unlocked read)
OuterCheck(c) ==
    IF chromedriver_initialized[procOf[c]] THEN "setup" ELSE "lock_wait"

\* Phase 1, then the unlocked read of the completion flag (first check of the
\* double-checked locking).
StartBegin(c) ==
    /\ ctor[c] = "built"
    /\ pc[c] = "idle"
    /\ opsLeft[c] > 0
    /\ ThreadFree(c)
    /\ opsLeft' = [opsLeft EXCEPT ![c] = @ - 1]
    /\ dns_resolved' = [dns_resolved EXCEPT ![procOf[c]] = TRUE]
    /\ prevOp' = [prevOp EXCEPT ![c] = lastOp[c]]
    /\ lastOp' = [lastOp EXCEPT ![c] = "start"]
    /\ result' = [result EXCEPT ![c] = "none"]
    /\ returned' = [returned EXCEPT ![c] = NoDriver]
    /\ attempts' = [attempts EXCEPT ![c] = 0]
    /\ attemptLog' = [attemptLog EXCEPT ![c] = NoAttempt]
    /\ transients' = [transients EXCEPT ![c] = 0]
    /\ pc' = [pc EXCEPT ![c] = OuterCheck(c)]
    /\ UNCHANGED <<nonControllerVars, placementVars, activeLog, wm_handle, launch_user_agent,
                   softFaultsLeft, lockHolder, chromedriver_initialized,
                   patcherLog, driver, current_user_agent, user_data_dir,
                   fsDirs, retry, base_delay, launched, unquit, stopLog,
                   lastGoodUA, faultsLeft>>

\* `with WebDriverController._chromedriver_download_lock:` blocks until the
\* lock object the class attribute names is free.
AcquireLock(c) ==
    /\ pc[c] = "lock_wait"
    /\ lockHolder[download_lock[procOf[c]]] = NoLock
    /\ lockHolder' = [lockHolder EXCEPT ![download_lock[procOf[c]]] = c]
    /\ pc' = [pc EXCEPT ![c] = "locked"]
    /\ UNCHANGED <<nonControllerVars, placementVars, activeLog, wm_handle, launch_user_agent,
                   softFaultsLeft, attemptLog, transients, chromedriver_initialized, dns_resolved,
                   patcherLog, driver, current_user_agent, user_data_dir,
                   fsDirs, retry, base_delay, attempts, launched, unquit,
                   lastOp, prevOp, result, returned, stopLog, lastGoodUA,
                   opsLeft, faultsLeft>>

HeldLock(c) == CHOOSE l \in Locks : lockHolder[l] = c

\* Mutation: the flag is not read again under the lock.
Recheck_Missing(c) == FALSE

\* `if not WebDriverController._chromedriver_initialized:` (under the lock)
Recheck(c) == chromedriver_initialized[procOf[c]]

\* Second check, under the lock: leave the block when the flag is set.
InnerCheck(c) ==
    /\ pc[c] = "locked"
    /\ IF Recheck(c)
       THEN /\ pc' = [pc EXCEPT ![c] = "setup"]
            /\ lockHolder' = [lockHolder EXCEPT ![HeldLock(c)] = NoLock]
       ELSE /\ pc' = [pc EXCEPT ![c] = "patching"]
            /\ UNCHANGED lockHolder
    /\ UNCHANGED <<nonControllerVars, placementVars, activeLog, wm_handle, launch_user_agent,
                   softFaultsLeft, attemptLog, transients, chromedriver_initialized, dns_resolved,
                   patcherLog, driver, current_user_agent, user_data_dir,
                   fsDirs, retry, base_delay, attempts, launched, unquit,
                   lastOp, prevOp, result, returned, stopLog, lastGoodUA,
                   opsLeft, faultsLeft>>

\* Mutation: an exception of patcher.auto() leaves the lock held.
LockAfterPatcher_KeptOnFailure(holder, ok) == IF ok THEN NoLock ELSE holder

\* the holder of the lock after the body of `with`: the try/except inside the
\* block swallows the exception, and `with` releases on both paths
LockAfterPatcher(holder, ok) == NoLock

\* uc.Patcher().auto(): on success the flag is set; an exception is logged
\* and swallowed, the flag stays unset. Either way the block is left.
PatcherAuto(c) ==
    /\ pc[c] = "patching"
    /\ \E ok \in BOOLEAN :
        /\ patcherLog' = [patcherLog EXCEPT ![procOf[c]] = Append(@, ok)]
        /\ chromedriver_initialized' =
             [chromedriver_initialized EXCEPT ![procOf[c]] = IF ok THEN TRUE ELSE @]
        /\ lockHolder' = [lockHolder EXCEPT ![HeldLock(c)] = LockAfterPatcher(c, ok)]
    /\ pc' = [pc EXCEPT ![c] = "setup"]
    /\ UNCHANGED <<nonControllerVars, placementVars, activeLog, wm_handle, launch_user_agent,
                   softFaultsLeft, attemptLog, transients, dns_resolved, driver, current_user_agent,
                   user_data_dir, fsDirs, retry, base_delay, attempts,
                   launched, unquit, lastOp, prevOp, result, returned,
                   stopLog, lastGoodUA, opsLeft, faultsLeft>>

\* --------------------------------------------------- start(): phase 3
GeneratedDir(c, port) == <<"generated", procOf[c], tidOf[c], port>>

\* An explicit user_data_dir is taken as it is; otherwise a directory named
\* after pid, thread id and a random port is created.
SetupDir(c) ==
    /\ pc[c] = "setup"
    /\ IF config.user_data_dir # NoDir
       THEN /\ user_data_dir' = [user_data_dir EXCEPT ![c] = config.user_data_dir]
            /\ UNCHANGED fsDirs
       ELSE \E port \in Ports :
            /\ user_data_dir' = [user_data_dir EXCEPT ![c] = GeneratedDir(c, port)]
            /\ fsDirs' = fsDirs \cup {GeneratedDir(c, port)}
    /\ retry' = [retry EXCEPT ![c] = 0]
    /\ base_delay' = [base_delay EXCEPT ![c] = 1]
    /\ pc' = [pc EXCEPT ![c] = "loop"]
    /\ UNCHANGED <<nonControllerVars, placementVars, activeLog, wm_handle, launch_user_agent,
                   softFaultsLeft, attemptLog, transients, lockHolder, chromedriver_initialized,
                   dns_resolved, patcherLog, driver, current_user_agent,
                   attempts, launched, unquit, lastOp, prevOp, result,
                   returned, stopLog, lastGoodUA, opsLeft, faultsLeft>>

\* --------------------------------------------------- start(): phase 4
\* Mutation: the last retry is not made.
Exhausted_Early(r) == r >= max_retries

\* `if retry > max_retries: raise`
Exhausted(r) == r > max_retries

\* Mutation: _apply_stealth_mode has no try/except.
ApplyStealthRaises_NoExcept(stealthOk) == ~stealthOk

\* _apply_stealth_mode: whether an exception leaves it when stealth(...)
\* fails
ApplyStealthRaises(stealthOk) == FALSE

\* _verify_driver_health: false without a handle or when the script fails
VerifyDriverHealth(d, healthOk) == d # NoDriver /\ healthOk

\* One iteration of `while retry <= max_retries`. kind: "launch_error" =
\* uc.Chrome(...) raised; "setup_error" = the browser was launched and
\* assigned to self.driver, then set_driver / set_window_size raised;
\* "ok" = the body reached `break`.
LaunchAttempt(c) ==
    /\ pc[c] = "loop"
    /\ retry[c] <= max_retries
    /\ \E ua \in GetUserAgent(config),
          reached \in {"launch_error", "setup_error", "ok"},
          transient \in BOOLEAN,
          stealthOk \in BOOLEAN, healthOk \in BOOLEAN :
      LET kind == IF reached = "ok" /\ ApplyStealthRaises(stealthOk)
                  THEN "setup_error" ELSE reached
      IN
        /\ reached = "ok" => ~transient
        /\ reached # "ok" => (faultsLeft > 0 /\ stealthOk /\ healthOk)
        /\ (~stealthOk \/ ~healthOk) => softFaultsLeft > 0
        /\ ~stealthOk => healthOk
        /\ softFaultsLeft' = IF stealthOk /\ healthOk THEN softFaultsLeft
                              ELSE softFaultsLeft - 1
        /\ faultsLeft' = IF reached = "ok" THEN faultsLeft ELSE faultsLeft - 1
        /\ attempts' = [attempts EXCEPT ![c] = @ + 1]
        /\ attemptLog' = [attemptLog EXCEPT ![c] =
              IF reached = "ok"
              THEN [made |-> TRUE, stealth_ok |-> stealthOk,
                    health_ok |-> VerifyDriverHealth(launched[c] + 1, healthOk),
                    handle |-> launched[c] + 1]
              ELSE NoAttempt]
        /\ current_user_agent' = [current_user_agent EXCEPT ![c] = ua]
        /\ IF kind = "launch_error"
           THEN UNCHANGED <<driver, launched, unquit, fsDirs, launch_user_agent,
                            wm_handle>>
           ELSE /\ driver' = [driver EXCEPT ![c] = launched[c] + 1]
                \* self.window_manager.set_driver(self.driver)
                /\ wm_handle' = [wm_handle EXCEPT ![c] = launched[c] + 1]
                /\ launch_user_agent' = [launch_user_agent EXCEPT ![c] = ua]
                /\ launched' = [launched EXCEPT ![c] = @ + 1]
                /\ unquit' = [unquit EXCEPT ![c] = @ + 1]
                /\ fsDirs' = fsDirs \cup {user_data_dir[c]}
        /\ IF kind = "ok"
           THEN \* break; return self.driver (the locals are gone)
                /\ pc' = [pc EXCEPT ![c] = "idle"]
                /\ result' = [result EXCEPT ![c] = "returned"]
                /\ returned' = [returned EXCEPT ![c] = driver'[c]]
                /\ lastGoodUA' = [lastGoodUA EXCEPT ![c] = ua]
                /\ retry' = [retry EXCEPT ![c] = 0]
                /\ base_delay' = [base_delay EXCEPT ![c] = 1]
                /\ transients' = [transients EXCEPT ![c] = 0]
           ELSE \* except Exception: retry += 1; ...
                /\ UNCHANGED lastGoodUA
                /\ IF Exhausted(retry[c] + 1)
                   THEN /\ pc' = [pc EXCEPT ![c] = "idle"]
                        /\ result' = [result EXCEPT ![c] = "raised"]
                        /\ retry' = [retry EXCEPT ![c] = 0]
                        /\ base_delay' = [base_delay EXCEPT ![c] = 1]
                        /\ transients' = [transients EXCEPT ![c] = 0]
                        /\ UNCHANGED returned
                   ELSE IF retry[c] + 1 <= max_retries
                   THEN /\ retry' = [retry EXCEPT ![c] = @ + 1]
                        /\ base_delay' = [base_delay EXCEPT ![c] = NextDelay(@, transient)]
                        /\ transients' = [transients EXCEPT ![c] =
                              IF transient THEN @ + 1 ELSE @]
                        /\ UNCHANGED <<pc, result, returned>>
                   ELSE \* the while condition ends the loop: return self.driver
                        /\ pc' = [pc EXCEPT ![c] = "idle"]
                        /\ result' = [result EXCEPT ![c] = "returned"]
                        /\ returned' = [returned EXCEPT ![c] = driver'[c]]
                        /\ retry' = [retry EXCEPT ![c] = 0]
                        /\ base_delay' = [base_delay EXCEPT ![c] = 1]
                        /\ transients' = [transients EXCEPT ![c] = 0]
    /\ UNCHANGED <<nonControllerVars, placementVars, activeLog, lockHolder,
                   chromedriver_initialized, dns_resolved, patcherLog,
                   user_data_dir, lastOp, prevOp, stopLog, opsLeft>>

\* ------------------------------------------------------------- stop()
\* Mutation: no `except Exception`, the error of the probe or of quit() leaves
\* stop() (the finally clause still clears the handle).
QuitDriver_NoExcept(d, probeOk, quitOk) ==
    IF d = NoDriver
    THEN [driver |-> d, quit_called |-> FALSE, quit_done |-> FALSE, raised |-> FALSE]
    ELSE IF ~probeOk
    THEN [driver |-> NoDriver, quit_called |-> FALSE, quit_done |-> FALSE, raised |-> TRUE]
    ELSE [driver |-> NoDriver, quit_called |-> TRUE, quit_done |-> quitOk, raised |-> ~quitOk]

\* Mutation: no `finally`, the handle is cleared only after a quit() that
\* returned.
QuitDriver_NoFinally(d, probeOk, quitOk) ==
    IF d = NoDriver
    THEN [driver |-> d, quit_called |-> FALSE, quit_done |-> FALSE, raised |-> FALSE]
    ELSE IF ~probeOk
    THEN [driver |-> d, quit_called |-> FALSE, quit_done |-> FALSE, raised |-> FALSE]
    ELSE [driver |-> IF quitOk THEN NoDriver ELSE d, quit_called |-> TRUE,
          quit_done |-> quitOk, raised |-> FALSE]

\* `if self.driver: try: current_url; quit() except Exception: log
\*  finally: self.driver = None`
QuitDriver(d, probeOk, quitOk) ==
    IF d = NoDriver
    THEN [driver |-> d, quit_called |-> FALSE, quit_done |-> FALSE, raised |-> FALSE]
    ELSE IF ~probeOk
    THEN [driver |-> NoDriver, quit_called |-> FALSE, quit_done |-> FALSE, raised |-> FALSE]
    ELSE [driver |-> NoDriver, quit_called |-> TRUE, quit_done |-> quitOk, raised |-> FALSE]

\* `if self._user_data_dir and self._user_data_dir.exists(): rmtree(...,
\*  ignore_errors=True)`
CleanupCalled(dir, fs) == dir # NoDir /\ dir \in fs

Stop(c) ==
    /\ pc[c] = "idle"
    /\ opsLeft[c] > 0
    /\ ThreadFree(c)
    /\ opsLeft' = [opsLeft EXCEPT ![c] = @ - 1]
    /\ prevOp' = [prevOp EXCEPT ![c] = lastOp[c]]
    /\ lastOp' = [lastOp EXCEPT ![c] = "stop"]
    /\ \E probeOk \in BOOLEAN, quitOk \in BOOLEAN, rmOk \in BOOLEAN :
        LET q == QuitDriver(driver[c], probeOk, quitOk)
            clean == ~q.raised /\ CleanupCalled(user_data_dir[c], fsDirs)
        IN  /\ (driver[c] = NoDriver) => (probeOk /\ quitOk)
            /\ ~probeOk => quitOk
            /\ ~clean => rmOk
            /\ driver' = [driver EXCEPT ![c] = q.driver]
            /\ launch_user_agent' = [launch_user_agent EXCEPT ![c] =
                  IF q.driver = NoDriver THEN NoUA ELSE @]
            /\ unquit' = [unquit EXCEPT ![c] = IF q.quit_done THEN @ - 1 ELSE @]
            /\ result' = [result EXCEPT ![c] = IF q.raised THEN "raised" ELSE "returned"]
            /\ fsDirs' = IF clean /\ rmOk THEN fsDirs \ {user_data_dir[c]} ELSE fsDirs
            /\ stopLog' = [stopLog EXCEPT ![c] =
                  [ran |-> TRUE, hadDriver |-> driver[c] # NoDriver,
                   probeOk |-> probeOk, quitOk |-> quitOk,
                   quit_called |-> q.quit_called,
                   dirExisted |-> CleanupCalled(user_data_dir[c], fsDirs),
                   rmtree_called |-> clean]]
    /\ UNCHANGED <<nonControllerVars, placementVars, activeLog, wm_handle, lockHolder, chromedriver_initialized,
                   dns_resolved, patcherLog, pc, current_user_agent,
                   user_data_dir, retry, base_delay, attempts, launched,
                   returned, lastGoodUA, faultsLeft, softFaultsLeft, attemptLog,
                   transients>>

\* ------------------------------------------------------- specifications
Next ==
    \E c \in Controllers :
        \/ StartBegin(c)
        \/ AcquireLock(c)
        \/ InnerCheck(c)
        \/ PatcherAuto(c)
        \/ SetupDir(c)
        \/ LaunchAttempt(c)
        \/ Stop(c)

Spec == Init /\ [][Next]_vars

SpecLife == InitLife /\ [][Next]_vars

SpecRetry == InitRetry /\ [][Next]_vars

\* the controllers that call start()
Starters == {1, 2}

\* Two controllers of one process, a thread each, start concurrently or one
\* after the other; together they may fail as often as one start() can.
InitFair ==
    /\ InitController
    /\ OthersIdle
    /\ config = [user_agent |-> NoUA, user_data_dir |-> ConfigDir]
    /\ procOf = [c \in Controllers |-> 1]
    /\ tidOf = [c \in Controllers |-> c]
    /\ download_lock = [p \in Procs |-> 1]
    /\ opsLeft = [c \in Controllers |-> IF c \in Starters THEN 1 ELSE 0]
    /\ faultsLeft = max_retries + 1
    /\ softFaultsLeft = 0

\* a step of a running start(): taking the lock when it is free, the check
\* under the lock, the acquisition, the directory setup, a launch attempt
StartStep(c) ==
    \/ AcquireLock(c)
    \/ InnerCheck(c)
    \/ PatcherAuto(c)
    \/ SetupDir(c)
    \/ LaunchAttempt(c)

\* Every running start() goes on: its thread is scheduled, and an
\* acquisition or a launch attempt that has begun comes to an end.
SpecFair ==
    /\ InitFair
    /\ [][Next]_vars
    /\ \A c \in Controllers : WF_vars(StartStep(c))

\* No controller call is made in the specifications of the other components.
ControllerIdle ==
    /\ InitController
    /\ config = [user_agent |-> NoUA, user_data_dir |-> NoDir]
    /\ procOf = [c \in Controllers |-> 1]
    /\ tidOf = [c \in Controllers |-> 1]
    /\ download_lock = [p \in Procs |-> p]
    /\ opsLeft = [c \in Controllers |-> 0]
    /\ faultsLeft = 0
    /\ softFaultsLeft = 0

\* ------------------------------------------------------------ __init__
\* `_chromedriver_download_lock = None`: the class attribute before the first
\* construction in a process
NoLockObject == 0

\* __init__ up to the read of `if cls._chromedriver_download_lock is None:`
\* in _initialize_class_variables
ConstructCheck(c) ==
    /\ ctor[c] = "unbuilt"
    /\ ThreadFree(c)
    /\ ctor' = [ctor EXCEPT ![c] =
          IF download_lock[procOf[c]] = NoLockObject THEN "creating" ELSE "built"]
    /\ UNCHANGED <<nonControllerVars, callVars, config, procOf, tidOf,
                   download_lock>>

\* `cls._chromedriver_download_lock = multiprocessing.Lock()`, a new lock
\* object named after the controller, and the rest of __init__
ConstructAssign(c) ==
    /\ ctor[c] = "creating"
    /\ download_lock' = [download_lock EXCEPT ![procOf[c]] = c]
    /\ ctor' = [ctor EXCEPT ![c] = "built"]
    /\ UNCHANGED <<nonControllerVars, callVars, config, procOf, tidOf>>

\* The controllers of one process, in one thread or in a thread each, from
\* their construction on; every controller makes one call.
InitConstruct ==
    /\ ControllerFields
    /\ OthersIdle
    /\ ctor = [c \in Controllers |-> "unbuilt"]
    /\ config = [user_agent |-> NoUA, user_data_dir |-> NoDir]
    /\ procOf = [c \in Controllers |-> 1]
    /\ tidOf \in {g \in [Controllers -> Tids] : CanonicalTids(procOf, g)}
    /\ download_lock = [p \in Procs |-> NoLockObject]
    /\ opsLeft = [c \in Controllers |-> 1]
    /\ faultsLeft = MaxFaults
    /\ softFaultsLeft = 0

NextConstruct ==
    \/ Next
    \/ \E c \in Controllers : ConstructCheck(c) \/ ConstructAssign(c)

SpecConstruct == InitConstruct /\ [][NextConstruct]_vars

\* ProxyManager alone: a manager built from any ProxyConfig, then its calls.
InitProxy ==
    /\ ControllerIdle
    /\ pm_config \in ProxyConfigs
    /\ pm_proxies = SetupProxies(pm_config)
    /\ pm_out = NoProxyCall
    /\ WindowIdle
    /\ CookieIdle
    /\ BridgeIdle
    /\ ServicesIdle
    /\ AgentIdle

NextProxy ==
    \/ GetProxyArguments
    \/ GetRequestsProxies
    \/ IsEnabled

SpecProxy == InitProxy /\ [][NextProxy]_vars

\* WindowManager alone, on a browser whose windows open and close.
InitWindow ==
    /\ ControllerIdle
    /\ ProxyIdle
    /\ WindowIdle
    /\ CookieIdle
    /\ BridgeIdle
    /\ ServicesIdle
    /\ AgentIdle

NextWindow ==
    \/ SetDriver
    \/ \E race \in Races : EnsureActive(race)
    \/ \E stuck \in SUBSET Handles, race \in Races : CloseExtraWindows(stuck, race)
    \/ GetWindowCount
    \/ IsOriginalWindowActive
    \/ OpenWindow
    \/ \E h \in Handles : WindowClosed(h)
    \/ BrowserDies

SpecWindow == InitWindow /\ [][NextWindow]_vars

\* _get_user_agent alone: a setting, and two calls with any state of the
\* random-agent source.
InitAgent ==
    /\ ControllerIdle
    /\ ProxyIdle
    /\ WindowIdle
    /\ CookieIdle
    /\ BridgeIdle
    /\ ServicesIdle
    /\ ua_setting \in AgentSettings
    /\ ua_out = NoAgentCall

NextAgent == \E source \in AgentSources : ResolveAgent(source)

SpecAgent == InitAgent /\ [][NextAgent]_vars

\* CookieManager alone, on a browser whose pages set cookies and a file that
\* other programs may write.
InitCookie ==
    /\ ControllerIdle
    /\ ProxyIdle
    /\ WindowIdle
    /\ CookieIdle
    /\ BridgeIdle
    /\ ServicesIdle
    /\ AgentIdle

NextCookie ==
    \/ CookieSetDriver
    \/ \E fault \in SaveFaults : SaveCookies(fault)
    \/ \E fault \in LoadFaults, rejected \in SUBSET (1..MaxRecords), site \in BOOLEAN :
           LoadCookies(fault, rejected, site)
    \/ \E fails \in BOOLEAN : CookieGetCookies(fails)
    \/ \E fails \in BOOLEAN : CookieDeleteAllCookies(fails)
    \/ \E c \in SiteCookies : SiteSetsCookie(c)
    \/ \E f \in ForeignFiles : FileWritten(f)

SpecCookie == InitCookie /\ [][NextCookie]_vars

\* ----------------------------------------------------------- accessors
\* get_driver()
GetDriver(c) == driver[c]

\* Mutation: is_active() does not probe.
IsActive_HandleOnly(c, probeOk) == driver[c] # NoDriver

\* is_active(): false without a handle or when the probe throws
IsActive(c, probeOk) == driver[c] # NoDriver /\ probeOk

\* get_current_user_agent()
GetCurrentUserAgent(c) == current_user_agent[c]

\* A call of is_active(); probeOk says whether driver.current_url answers.
IsActiveCall(c, probeOk) ==
    /\ pc[c] = "idle"
    /\ opsLeft[c] > 0
    /\ ThreadFree(c)
    /\ ~probeOk => driver[c] # NoDriver
    /\ opsLeft' = [opsLeft EXCEPT ![c] = @ - 1]
    /\ prevOp' = [prevOp EXCEPT ![c] = lastOp[c]]
    /\ lastOp' = [lastOp EXCEPT ![c] = "is_active"]
    /\ activeLog' = [activeLog EXCEPT ![c] =
          [ret |-> IsActive(c, probeOk), raised |-> FALSE, probe_ok |-> probeOk,
           driver_before |-> driver[c], agent_before |-> current_user_agent[c]]]
    /\ UNCHANGED <<nonControllerVars, placementVars, lockHolder,
                   chromedriver_initialized, dns_resolved, patcherLog, pc, driver,
                   current_user_agent, user_data_dir, fsDirs, retry, base_delay,
                   attempts, launched, unquit, result, returned, stopLog,
                   lastGoodUA, faultsLeft, launch_user_agent, softFaultsLeft,
                   attemptLog, transients, wm_handle>>

\* One controller over three calls of start, stop and is_active, with launch
\* faults and with failures of stealth and of the health probe.
InitProbe ==
    /\ InitController
    /\ OthersIdle
    /\ config \in {cfg \in Configs : cfg.user_agent = NoUA}
    /\ procOf = [c \in Controllers |-> 1]
    /\ tidOf = [c \in Controllers |-> 1]
    /\ download_lock = [p \in Procs |-> p]
    /\ opsLeft = [c \in Controllers |-> IF c = 1 THEN 3 ELSE 0]
    /\ faultsLeft = MaxFaults
    /\ softFaultsLeft = MaxSoftFaults

NextProbe ==
    \/ Next
    \/ \E c \in Controllers, probeOk \in BOOLEAN : IsActiveCall(c, probeOk)

SpecProbe == InitProbe /\ [][NextProbe]_vars

\* ------------------------------------------------- BrowserSession calls
\* A call on the session of controller c by the client that also calls
\* start() and stop().
BridgeCall(c) ==
    /\ pc[c] = "idle"
    /\ opsLeft[c] > 0
    /\ ThreadFree(c)
    /\ opsLeft' = [opsLeft EXCEPT ![c] = @ - 1]
    /\ UNCHANGED <<placementVars, activeLog, wm_handle, lockHolder, chromedriver_initialized,
                   dns_resolved, patcherLog, pc, driver, current_user_agent,
                   user_data_dir, fsDirs, retry, base_delay, attempts, launched,
                   unquit, lastOp, prevOp, result, returned, stopLog, lastGoodUA,
                   faultsLeft, launch_user_agent, softFaultsLeft, attemptLog,
                   transients>>
    /\ UNCHANGED <<proxyVars, windowVars, cookieVars, agentVars, serviceVars,
                   cm_handle>>

\* `user_agent = self.controller.get_current_user_agent()`
SessionUserAgent(c) == GetCurrentUserAgent(c)

\* `if proxy_manager and proxy_manager.is_enabled(): proxies =
\*  get_requests_proxies(); if proxies: session.proxies.update(proxies)`
SessionProxies ==
    IF pm_config.present /\ ProxyIsEnabled(pm_config, pm_proxies)
    THEN RequestsProxies(pm_proxies)
    ELSE NoProxies

\* get_requests_session; cookies is what driver.get_cookies() returns and
\* fails says that it raises
GetRequestsSession(c, cookies, fails) ==
    /\ BridgeCall(c)
    /\ IF driver[c] = NoDriver
       THEN /\ cookies = {} /\ ~fails
            /\ bs_out' = [NoBridgeCall EXCEPT !.op = "get_requests_session",
                                              !.raised = TRUE,
                                              !.error = "not_started"]
       ELSE IF fails
       THEN /\ cookies = {}
            /\ bs_out' = [NoBridgeCall EXCEPT !.op = "get_requests_session",
                                              !.handle = TRUE,
                                              !.failed = TRUE,
                                              !.raised = TRUE,
                                              !.error = "browser_error"]
       ELSE bs_out' = [NoBridgeCall EXCEPT
                           !.op = "get_requests_session",
                           !.handle = TRUE,
                           !.cookies = cookies,
                           !.store = JarFrom(CookieList(cookies), 1, {}),
                           !.ua = SessionUserAgent(c),
                           !.browser_ua = launch_user_agent[c],
                           !.proxies = SessionProxies]

\* BrowserSession.get_cookies
SessionGetCookies(c, cookies, fails) ==
    /\ BridgeCall(c)
    /\ IF driver[c] = NoDriver
       THEN /\ cookies = {} /\ ~fails
            /\ bs_out' = [NoBridgeCall EXCEPT !.op = "get_cookies"]
       ELSE IF fails
       THEN /\ cookies = {}
            /\ bs_out' = [NoBridgeCall EXCEPT !.op = "get_cookies",
                                              !.handle = TRUE,
                                              !.failed = TRUE,
                                              !.raised = TRUE,
                                              !.error = "browser_error"]
       ELSE bs_out' = [NoBridgeCall EXCEPT !.op = "get_cookies",
                                           !.handle = TRUE,
                                           !.cookies = cookies,
                                           !.result = cookies]

\* BrowserSession.delete_all_cookies
SessionDeleteAllCookies(c, fails) ==
    /\ BridgeCall(c)
    /\ fails => driver[c] # NoDriver
    /\ bs_out' = [NoBridgeCall EXCEPT !.op = "delete_all_cookies",
                                      !.handle = driver[c] # NoDriver,
                                      !.failed = fails,
                                      !.raised = fails,
                                      !.error = IF fails THEN "browser_error"
                                                ELSE "none"]

\* A call on the session that reaches its CookieManager.
SessionCookieCall(c) ==
    /\ pc[c] = "idle"
    /\ opsLeft[c] > 0
    /\ ThreadFree(c)
    /\ opsLeft' = [opsLeft EXCEPT ![c] = @ - 1]
    /\ UNCHANGED <<placementVars, activeLog, wm_handle, lockHolder,
                   chromedriver_initialized, dns_resolved, patcherLog, pc, driver,
                   current_user_agent, user_data_dir, fsDirs, retry, base_delay,
                   attempts, launched, unquit, lastOp, prevOp, result, returned,
                   stopLog, lastGoodUA, faultsLeft, launch_user_agent,
                   softFaultsLeft, attemptLog, transients>>
    /\ UNCHANGED <<proxyVars, windowVars, agentVars, serviceVars>>

\* BrowserSession(controller): a new session replaces the one on controller c
SessionInit(c) ==
    /\ SessionCookieCall(c)
    /\ cm_handle' = [cm_handle EXCEPT ![c] = driver[c]]
    /\ cm_driver' = (driver[c] # NoDriver)
    /\ bs_out' = [NoBridgeCall EXCEPT !.op = "__init__",
                                      !.handle = driver[c] # NoDriver]
    /\ cm_out' = NoCookieCall
    /\ UNCHANGED <<live, file, roundTrip>>

\* BrowserSession.save_cookies
SessionSaveCookies(c, fault) ==
    /\ SessionCookieCall(c)
    /\ bs_out' = [NoBridgeCall EXCEPT !.op = "save_cookies",
                                      !.handle = driver[c] # NoDriver]
    /\ IF driver[c] = NoDriver
       THEN /\ fault = "none"
            /\ UNCHANGED <<cm_handle, cookieVars>>
       ELSE /\ cm_handle' = [cm_handle EXCEPT ![c] = driver[c]]
            /\ cm_driver' = TRUE
            /\ SaveCookiesOn(TRUE, fault)

\* BrowserSession.load_cookies
SessionLoadCookies(c, fault, rejected, site) ==
    /\ SessionCookieCall(c)
    /\ bs_out' = [NoBridgeCall EXCEPT !.op = "load_cookies",
                                      !.handle = driver[c] # NoDriver]
    /\ IF driver[c] = NoDriver
       THEN /\ fault = "none" /\ rejected = {} /\ ~site
            /\ UNCHANGED <<cm_handle, cookieVars>>
       ELSE /\ cm_handle' = [cm_handle EXCEPT ![c] = driver[c]]
            /\ cm_driver' = TRUE
            /\ LoadCookiesOn(TRUE, fault, rejected, site)

\* One controller and its session over four calls of start, stop and the
\* session's constructor, save_cookies and load_cookies.
InitAttach ==
    /\ InitController
    /\ OthersIdle
    /\ config \in {cfg \in Configs : cfg.user_agent = NoUA /\ cfg.user_data_dir = NoDir}
    /\ procOf = [c \in Controllers |-> 1]
    /\ tidOf = [c \in Controllers |-> 1]
    /\ download_lock = [p \in Procs |-> p]
    /\ opsLeft = [c \in Controllers |-> IF c = 1 THEN MaxOpsAttach ELSE 0]
    /\ faultsLeft = MaxFaults
    /\ softFaultsLeft = 0

NextAttach ==
    \/ Next
    \/ \E c \in Controllers :
        \/ SessionInit(c)
        \/ \E fault \in SaveFaults : SessionSaveCookies(c, fault)
        \/ \E fault \in LoadFaults, rejected \in SUBSET (1..MaxRecords),
              site \in BOOLEAN :
               SessionLoadCookies(c, fault, rejected, site)

SpecAttach == InitAttach /\ [][NextAttach]_vars

\* A controller built with a proxy configuration, and its session.
InitBridge(ops, faults, agents, proxyConfigs) ==
    /\ softFaultsLeft = 0
    /\ InitController
    /\ WindowIdle
    /\ CookieIdle
    /\ BridgeIdle
    /\ ServicesIdle
    /\ AgentIdle
    /\ config \in {cfg \in Configs : cfg.user_agent \in agents /\ cfg.user_data_dir = NoDir}
    /\ procOf = [c \in Controllers |-> 1]
    /\ tidOf = [c \in Controllers |-> 1]
    /\ download_lock = [p \in Procs |-> p]
    /\ opsLeft = [c \in Controllers |-> IF c = 1 THEN ops ELSE 0]
    /\ faultsLeft = faults
    /\ pm_config \in proxyConfigs
    /\ pm_proxies = SetupProxies(pm_config)
    /\ pm_out = NoProxyCall

NextBridge ==
    \/ Next
    \/ \E c \in Controllers :
        \/ \E cookies \in BridgeCookieSets, fails \in BOOLEAN :
               GetRequestsSession(c, cookies, fails)
        \/ \E cookies \in BridgeCookieSets, fails \in BOOLEAN :
               SessionGetCookies(c, cookies, fails)
        \/ \E fails \in BOOLEAN : SessionDeleteAllCookies(c, fails)

\* the session over three calls of start, stop and the session, for the
\* default user agent and every proxy configuration
SpecBridge ==
    InitBridge(3, MaxFaults, {NoUA}, BridgeProxyConfigs)
        /\ [][NextBridge]_vars

\* the session after a start() that may exhaust its retries, for a random
\* user agent and an enabled proxy configuration of a known or unknown type
SpecBridgeRetry ==
    InitBridge(2, MaxFaultsRetry, {"auto"},
               {p \in BridgeProxyConfigs : p.present /\ p.enabled})
        /\ [][NextBridge]_vars

\* ============================================================== claims
CtlOf(p) == {c \in Controllers : procOf[c] = p}

OneThreadEach(p) ==
    \A c, d \in CtlOf(p) : c # d => tidOf[c] # tidOf[d]

AllStartsDone(p) ==
    /\ CtlOf(p) # {}
    /\ \A c \in CtlOf(p) : lastOp[c] = "start" /\ pc[c] = "idle"

StartDone(c) == lastOp[c] = "start" /\ pc[c] = "idle"

\* C1 (as stated): once the controllers of one process, one thread each, have
\* all completed start(), patcher.auto() has been executed exactly once in
\* that process.
C1_ExactlyOnce ==
    \A p \in Procs :
        (OneThreadEach(p) /\ AllStartsDone(p)) => Len(patcherLog[p]) = 1

\* C1 (amended): once the controllers of one process have all completed
\* start(), patcher.auto() has been executed at least once in that process,
\* and at every moment every execution but the last one is one that failed:
\* it succeeds at most once and nothing runs it after a success.
C1_OnceUnlessFailed ==
    \A p \in Procs :
        /\ \A i \in 1..(Len(patcherLog[p]) - 1) : ~patcherLog[p][i]
        /\ AllStartsDone(p) => Len(patcherLog[p]) >= 1

C1_Witness ==
    \E p \in Procs :
        /\ Cardinality(CtlOf(p)) >= 2
        /\ OneThreadEach(p)
        /\ AllStartsDone(p)
        /\ patcherLog[p] = <<FALSE, TRUE>>

\* C2 (as stated): a controller executes patcher.auto() only while no other
\* process has completed the acquisition and no controller of another
\* process is executing it.
C2_OnceAcrossProcesses ==
    \A c \in Controllers :
        pc[c] = "patching" =>
            \A d \in Controllers :
                procOf[d] # procOf[c] =>
                    /\ ~chromedriver_initialized[procOf[d]]
                    /\ pc[d] # "patching"

\* C3 (as stated): a controller has made a launch attempt only if an
\* acquisition has completed successfully (some completion flag is set).
C3_SuccessBeforeLaunch ==
    \A c \in Controllers :
        attempts[c] > 0 => \E p \in Procs : chromedriver_initialized[p]

\* C3 (amended): a controller is in its retry loop, or has made a launch
\* attempt, only if an execution of patcher.auto() in its own process has
\* ended, successfully or with an error.
C3_AcquisitionEndedBeforeLaunch ==
    \A c \in Controllers :
        (pc[c] = "loop" \/ attempts[c] > 0) => Len(patcherLog[procOf[c]]) >= 1

C3_Witness ==
    \E c \in Controllers :
        /\ attempts[c] > 0
        /\ ~chromedriver_initialized[procOf[c]]
        /\ patcherLog[procOf[c]] = <<FALSE>>

\* C4: inside the retry loop every attempt made so far has failed and at
\* most max_retries of them were made; a start() that raised has made exactly
\* max_retries + 1 attempts, returned no handle, and is not in the loop.
C4_ExactlyRPlusOneAttempts ==
    \A c \in Controllers :
        /\ pc[c] = "loop" => (attempts[c] = retry[c] /\ retry[c] <= max_retries)
        /\ (StartDone(c) /\ result[c] = "raised") =>
               (attempts[c] = max_retries + 1 /\ returned[c] = NoDriver)

C4_Witness ==
    \E c \in Controllers :
        StartDone(c) /\ result[c] = "raised" /\ attempts[c] = 8

\* C5 (as stated): a start() makes at most 7 launch attempts.
C5_AtMostSevenAttempts ==
    \A c \in Controllers : attempts[c] <= 7

\* C5 (amended): a start() makes at most 8 launch attempts, the first one
\* and 7 retries.
C5_AtMostEightAttempts ==
    \A c \in Controllers : attempts[c] <= 8

C5_Witness ==
    \E c \in Controllers :
        StartDone(c) /\ result[c] = "returned" /\ attempts[c] = 8

\* C6 (as stated): the browsers a controller has launched and not yet quit
\* are never more than one.
C6_AtMostOneLiveBrowser ==
    \A c \in Controllers : unquit[c] <= 1

\* C7 (as stated): before the first start(), after stop() and after a start()
\* that raised, get_driver() is None and is_active() is false.
C7_HandleOnlyWhileRunning ==
    \A c \in Controllers :
        (pc[c] = "idle" /\ (lastOp[c] \in {"none", "stop"} \/ result[c] = "raised")) =>
            /\ GetDriver(c) = NoDriver
            /\ \A probeOk \in BOOLEAN : ~IsActive(c, probeOk)

\* C8: stop() never raises, whatever the state and whatever the probe and
\* quit() do, and leaves no handle; a stop() that follows a stop() finds no
\* handle and issues no quit.
C8_StopNeverRaisesIdempotent ==
    \A c \in Controllers :
        lastOp[c] = "stop" =>
            /\ result[c] = "returned"
            /\ driver[c] = NoDriver
            /\ prevOp[c] = "stop" =>
                   (~stopLog[c].hadDriver /\ ~stopLog[c].quit_called)

C8_Witness ==
    \E c \in Controllers :
        /\ lastOp[c] = "stop" /\ prevOp[c] = "stop"
        /\ launched[c] = 1 /\ unquit[c] = 0

C10_AgentOfLastSuccessfulStart ==
    \A c \in Controllers :
        pc[c] = "idle" => GetCurrentUserAgent(c) = lastGoodUA[c]

\* C11 (as stated): two controllers that hold a browser at the same time and
\* generated their profile directory (no user_data_dir configured) use
\* different directories.
C11_DistinctProfileDirs ==
    \A c, d \in Controllers :
        (/\ c # d
         /\ config.user_data_dir = NoDir
         /\ driver[c] # NoDriver /\ driver[d] # NoDriver) =>
            user_data_dir[c] # user_data_dir[d]

\* C20 (as stated): a manager built from any ProxyConfig of type tor answers
\* get_proxy_arguments with the fixed endpoint 127.0.0.1:9150 and
\* get_requests_proxies with a mapping to that endpoint, whatever the address.
C20_TorFixedEndpoint ==
    (pm_config.present /\ Lower(pm_config.type) = "tor") =>
        /\ pm_out.op = "get_proxy_arguments" =>
               pm_out.args = << <<"--proxy-server=", "socks5://", TOR_ENDPOINT>> >>
        /\ pm_out.op = "get_requests_proxies" =>
               pm_out.proxies = [http |-> <<"socks5h://", TOR_ENDPOINT>>,
                                 https |-> <<"socks5h://", TOR_ENDPOINT>>]

\* C20 (amended): a manager built from an enabled ProxyConfig whose type is tor
\* in any letter case answers get_proxy_arguments with exactly one argument,
\* --proxy-server=socks5://127.0.0.1:9150, and get_requests_proxies with
\* socks5h://127.0.0.1:9150 for http and for https, whatever the address field.
C20_EnabledTorFixedEndpoint ==
    (pm_config.present /\ pm_config.enabled /\ Lower(pm_config.type) = "tor") =>
        /\ pm_out.op = "get_proxy_arguments" =>
               pm_out.args = << <<"--proxy-server=", "socks5://", TOR_ENDPOINT>> >>
        /\ pm_out.op = "get_requests_proxies" =>
               pm_out.proxies = [http |-> <<"socks5h://", TOR_ENDPOINT>>,
                                 https |-> <<"socks5h://", TOR_ENDPOINT>>]

C20_Witness ==
    /\ pm_config.present /\ pm_config.enabled
    /\ pm_config.type = "tor"
    /\ pm_config.address = "10.0.0.1:3128"
    /\ pm_out.op = "get_proxy_arguments"
    /\ pm_out.args # <<>>

\* C18 (as stated): close_extra_windows() called with a driver attached to a
\* browser that answers, W > 1 open windows and the tracked original among
\* them leaves exactly the tracked original open and focused, and returns W-1.
C18_LeavesOriginalOnly ==
    (/\ wm_out.op = "close_extra_windows"
     /\ wm_driver /\ br_alive
     /\ Cardinality(wm_out.before) > 1
     /\ wm_out.original_before \in wm_out.before) =>
        /\ br_windows = {wm_out.original_before}
        /\ br_focus = wm_out.original_before
        /\ wm_out.count = Cardinality(wm_out.before) - 1

\* C18 (amended): the same, for calls in which every switch and every close
\* succeeds.
C18_LeavesOriginalOnlyIfAllClose ==
    (/\ wm_out.op = "close_extra_windows"
     /\ wm_driver /\ br_alive
     /\ Cardinality(wm_out.before) > 1
     /\ wm_out.original_before \in wm_out.before
     /\ wm_out.stuck = {} /\ wm_out.race = "none") =>
        /\ br_windows = {wm_out.original_before}
        /\ br_focus = wm_out.original_before
        /\ wm_out.count = Cardinality(wm_out.before) - 1

C18_Witness ==
    /\ wm_out.op = "close_extra_windows"
    /\ wm_out.before = {1, 2, 3}
    /\ wm_out.original_before = 1
    /\ wm_out.stuck = {} /\ wm_out.race = "none"
    /\ wm_out.count = 2
    /\ br_windows = {1}

C16_FailureNeverAborts ==
    (cm_out.op = "load_cookies" /\ cm_out.looped) =>
        /\ cm_out.attempted = Len(file.records)
        /\ \E i \in 1..Len(cm_out.calls) : cm_out.calls[i].call = "refresh"
        /\ cm_out.count =
               Cardinality({i \in 1..Len(cm_out.calls) :
                                cm_out.calls[i].call = "add_cookie"})
               - Cardinality(cm_out.rejected)

\* C17 (as stated): load_cookies() on a missing file, on a file that is not
\* valid JSON or on a JSON file that is not a list of cookies raises nothing,
\* issues no browser call and leaves the live cookies as they were; a
\* save_cookies() whose write fails raises nothing and leaves the file as it
\* was.
C17_FailedPersistenceIsNoOp ==
    /\ (/\ cm_out.op = "load_cookies"
        /\ cm_out.file_before.kind \in {"missing", "invalid", "scalar"}) =>
           /\ ~cm_out.raised
           /\ live = cm_out.before
           /\ cm_out.calls = <<>>
    /\ (cm_out.op = "save_cookies" /\ cm_out.fault \in {"open", "dump"}) =>
           /\ ~cm_out.raised
           /\ file = cm_out.file_before

\* C12 (as stated): an exception leaves a call on the controller only from
\* start(), and leaves a call on the session only as the not-started error of
\* get_requests_session().
C12_OnlyLaunchAndNotStartedEscape ==
    /\ \A c \in Controllers : result[c] = "raised" => lastOp[c] = "start"
    /\ bs_out.raised =>
           (bs_out.op = "get_requests_session" /\ bs_out.error = "not_started")

\* C13 (as stated): get_requests_session() raises the not-started error when
\* the controller holds no handle; when it holds one and the browser answers,
\* it returns a session whose cookie store has, for every live cookie, an
\* entry with that cookie's name and value.
C13_NotStartedOrMirroredCookies ==
    bs_out.op = "get_requests_session" =>
        /\ ~bs_out.handle => (bs_out.raised /\ bs_out.error = "not_started")
        /\ (bs_out.handle /\ ~bs_out.failed) =>
               /\ ~bs_out.raised
               /\ \A c \in bs_out.cookies :
                      \E e \in bs_out.store : e.name = c.name /\ e.value = c.value

\* C14 (as stated): the session returned by get_requests_session() has the
\* User-Agent header the browser in self.driver was launched with, and has the
\* ProxyManager's client mapping exactly if the ProxyManager reports enabled.
C14_AgentAndProxyOfBrowser ==
    (bs_out.op = "get_requests_session" /\ ~bs_out.raised) =>
        /\ bs_out.ua = bs_out.browser_ua
        /\ bs_out.proxies = IF ProxyIsEnabled(pm_config, pm_proxies)
                            THEN RequestsProxies(pm_proxies)
                            ELSE NoProxies

\* the config carries a username and a password
HasCredentials(cfg) == cfg.username # "" /\ cfg.password # ""

\* the types for which _setup_proxies resolves a descriptor
KnownProxyType(cfg) == Lower(cfg.type) \in {"tor", "http", "socks5"}

\* C21 (as stated): the mapping of a manager built from an enabled config of
\* type http or socks5 has, for http and for https, a URL made of the scheme
\* and the address, with user:password@ before the address exactly when the
\* config carries credentials.
C21_AddressAndCredentials ==
    (/\ pm_out.op = "get_requests_proxies"
     /\ pm_config.present /\ pm_config.enabled
     /\ Lower(pm_config.type) \in {"http", "socks5"}) =>
        \A k \in {"http", "https"} :
            LET url == IF k = "http" THEN pm_out.proxies.http
                       ELSE pm_out.proxies.https
            IN  IF HasCredentials(pm_config)
                THEN /\ Len(url) = 6
                     /\ SubSeq(url, 2, 6) =
                            <<pm_config.username, ":", pm_config.password, "@",
                              pm_config.address>>
                ELSE /\ Len(url) = 2
                     /\ url[2] = pm_config.address

\* C22: is_enabled() is true exactly for a present, enabled config of a known
\* type; get_proxy_arguments() returns one --proxy-server flag in that case
\* and nothing otherwise; and a config that is absent, disabled or of an
\* unknown type has no client mapping.
C22_EnabledIffResolved ==
    LET resolved == pm_config.present /\ pm_config.enabled /\ KnownProxyType(pm_config)
    IN  /\ pm_out.op = "is_enabled" => (pm_out.enabled <=> resolved)
        /\ pm_out.op = "get_proxy_arguments" =>
               IF resolved
               THEN Len(pm_out.args) = 1 /\ pm_out.args[1][1] = "--proxy-server="
               ELSE pm_out.args = <<>>
        /\ (pm_out.op = "get_requests_proxies" /\ ~resolved) =>
               pm_out.proxies = NoProxies

C22_Witness ==
    /\ pm_config.present /\ pm_config.enabled
    /\ pm_config.type = "ftp"
    /\ pm_out.op = "is_enabled"
    /\ ~pm_out.enabled

\* C23 (as stated): a setting other than unset and "auto" is returned as it
\* is; the setting "auto" with the source unavailable or failing gives the
\* default agent, on every call; an unset setting gives that default.
C23_AgentResolution ==
    ua_out.calls > 0 =>
        /\ ua_setting \notin {NoUA, "auto"} => ua_out.value = ua_setting
        /\ (ua_setting = "auto" /\ ua_out.source \notin RandomUAs) =>
               ua_out.value = DEFAULT_UA
        /\ (/\ ua_setting = "auto" /\ ua_out.calls = 2
            /\ ua_out.source \notin RandomUAs
            /\ ua_out.prev_source \notin RandomUAs) =>
               ua_out.value = ua_out.prev_value
        /\ ua_setting = NoUA => ua_out.value = DEFAULT_UA

\* C23 (amended): a non-empty setting that is not "auto" in any letter case
\* is returned as it is; "auto" in any letter case with the source
\* unavailable or failing gives the default agent, on every call; an unset or
\* empty setting gives that default.
C23_AgentResolutionByCase ==
    ua_out.calls > 0 =>
        /\ (ua_setting \notin {NoUA, ""} /\ LowerAgent(ua_setting) # "auto") =>
               ua_out.value = ua_setting
        /\ (LowerAgent(ua_setting) = "auto" /\ ua_out.source \notin RandomUAs) =>
               ua_out.value = DEFAULT_UA
        /\ (/\ LowerAgent(ua_setting) = "auto" /\ ua_out.calls = 2
            /\ ua_out.source \notin RandomUAs
            /\ ua_out.prev_source \notin RandomUAs) =>
               ua_out.value = ua_out.prev_value
        /\ ua_setting \in {NoUA, ""} => ua_out.value = DEFAULT_UA

C23_Witness ==
    /\ ua_setting = "auto"
    /\ ua_out.calls = 2
    /\ ua_out.prev_source = "unavailable"
    /\ ua_out.source = "failing"
    /\ ua_out.value = DEFAULT_UA
    /\ ua_out.prev_value = DEFAULT_UA

\* C30 (as stated): a stop() of a controller whose profile directory was
\* supplied through config.user_data_dir does not remove that directory.
C30_ConfiguredDirKept ==
    \A c \in Controllers :
        (/\ lastOp[c] = "stop" /\ stopLog[c].ran
         /\ config.user_data_dir # NoDir) =>
            /\ ~stopLog[c].rmtree_called
            /\ stopLog[c].dirExisted => user_data_dir[c] \in fsDirs

C27_IsActiveProbe ==
    \A c \in Controllers :
        lastOp[c] = "is_active" =>
            /\ activeLog[c].ret =
                 (activeLog[c].driver_before # NoDriver /\ activeLog[c].probe_ok)
            /\ ~activeLog[c].raised
            /\ driver[c] = activeLog[c].driver_before
            /\ current_user_agent[c] = activeLog[c].agent_before
            /\ pc[c] = "idle"

C27_Witness ==
    \E c \in Controllers :
        /\ lastOp[c] = "is_active"
        /\ ~activeLog[c].probe_ok /\ ~activeLog[c].ret
        /\ driver[c] # NoDriver

RECURSIVE Pow2(_)
Pow2(n) == IF n = 0 THEN 1 ELSE 2 * Pow2(n - 1)

\* C25: whenever an iteration of the retry loop is about to begin, base_delay
\* is 2^t for the t failures of this start() classified transient so far;
\* the first iteration sleeps nothing and every later one sleeps base_delay
\* plus a jitter between 0 and 1.
C25_Backoff ==
    \A c \in Controllers :
        pc[c] = "loop" =>
            /\ base_delay[c] = Pow2(transients[c])
            /\ transients[c] <= retry[c]
            /\ retry[c] = attempts[c]
            /\ attempts[c] = 0 => SleepDelays(retry[c], base_delay[c]) = {}
            /\ attempts[c] > 0 =>
                 /\ SleepDelays(retry[c], base_delay[c]) # {}
                 /\ \A delay \in SleepDelays(retry[c], base_delay[c]) :
                      /\ delay >= Pow2(transients[c])
                      /\ delay <= Pow2(transients[c]) + 1

C25_Witness ==
    \E c \in Controllers :
        /\ pc[c] = "loop" /\ retry[c] = 5 /\ transients[c] = 3
        /\ base_delay[c] = 8

\* C26 (as stated): the controller's WindowManager and the CookieManager of
\* its session hold no handle other than the controller's live handle: none
\* after stop(), the new one after a later start().
C26_ManagersFollowLiveHandle ==
    \A c \in Controllers :
        pc[c] = "idle" =>
            /\ wm_handle[c] \in {NoDriver, driver[c]}
            /\ cm_handle[c] \in {NoDriver, driver[c]}

InCriticalSection(c) == pc[c] \in {"locked", "patching"}

\* C28 (as stated): of the controllers constructed in one process, from one
\* thread or from several, at most one is inside the block guarded by the
\* acquisition lock.
C28_OneInCriticalSection ==
    \A c, d \in Controllers :
        (c # d /\ procOf[c] = procOf[d]) =>
            ~(InCriticalSection(c) /\ InCriticalSection(d))

\* C29: every start() that has begun comes to an end: the controller is idle
\* again and the call has returned a handle or raised.
C29_StartTerminates ==
    \A c \in Controllers :
        (pc[c] # "idle") ~>
            (/\ pc[c] = "idle"
             /\ lastOp[c] = "start"
             /\ \/ result[c] = "raised"
                \/ result[c] = "returned" /\ returned[c] # NoDriver)

C29_Witness ==
    \E c, d \in Controllers :
        /\ c # d /\ tidOf[c] # tidOf[d]
        /\ StartDone(c) /\ StartDone(d)
        /\ result[c] = "raised" /\ result[d] = "returned"
        /\ Len(patcherLog[1]) = 2 /\ ~patcherLog[1][1]

\* the positions of the calls named call in a sequence of driver calls
CallsOf(calls, call) == {i \in 1..Len(calls) : calls[i].call = call}

WellFormed(f) ==
    f.kind = "list" /\ \A i \in 1..Len(f.records) : f.records[i].kind = "dict"

\* the stored records that carry a name and a value
Injectable(f) ==
    {i \in 1..Len(f.records) :
        /\ f.records[i].kind = "dict"
        /\ {"name", "value"} \subseteq f.records[i].keys}

\* C31: load_cookies on a well-formed file calls the browser in the order
\* get, delete_all_cookies, add_cookie ..., refresh: the first call is the
\* navigation, nothing is cleared or injected before it, a failed navigation
\* is the only call and leaves the cookies alone, and with no failure the
\* calls are exactly navigation, clearing, the injections and the refresh.
C31_LoadOrder ==
    (cm_out.op = "load_cookies" /\ cm_out.calls # <<>>
        /\ WellFormed(cm_out.file_before)) =>
        LET calls == cm_out.calls
            n == Len(calls)
        IN
        /\ calls[1].call = "get"
        /\ CallsOf(calls, "get") = {1}
        /\ CallsOf(calls, "delete_all_cookies") \subseteq {2}
        /\ CallsOf(calls, "add_cookie") # {} => calls[2].call = "delete_all_cookies"
        /\ \A i \in CallsOf(calls, "add_cookie"), j \in CallsOf(calls, "refresh") :
               i < j
        /\ CallsOf(calls, "refresh") \subseteq {n}
        /\ cm_out.fault = "get" => (n = 1 /\ live = cm_out.before)
        /\ cm_out.fault = "delete_all_cookies" => (n = 2 /\ live = cm_out.before)
        /\ cm_out.fault \in {"none", "refresh"} =>
               /\ n = 3 + Cardinality(Injectable(cm_out.file_before))
               /\ calls[2].call = "delete_all_cookies"
               /\ calls[n].call = "refresh"
               /\ \A i \in 3..(n - 1) : calls[i].call = "add_cookie"

C31_Witness ==
    /\ cm_out.op = "load_cookies" /\ cm_out.fault = "none"
    /\ WellFormed(cm_out.file_before)
    /\ Len(cm_out.calls) = 4
    /\ cm_out.before # {}

\* C32: every cookie load_cookies passes to add_cookie has keys among the
\* allowed ones, without domain; only stored records with a name and a value
\* are passed, and only accepted injections are counted.
C32_InjectedKeys ==
    cm_out.op = "load_cookies" =>
        LET adds == CallsOf(cm_out.calls, "add_cookie") IN
        /\ \A i \in adds :
               /\ "domain" \notin cm_out.calls[i].keys
               /\ cm_out.calls[i].keys \subseteq
                      {"name", "value", "path", "secure", "httpOnly", "sameSite",
                       "expiry"}
               /\ {"name", "value"} \subseteq cm_out.calls[i].keys
        /\ Cardinality(adds) <= Cardinality(Injectable(cm_out.file_before))
        /\ cm_out.count <= Cardinality(adds)
        /\ (cm_out.looped /\ ~cm_out.aborted) =>
               /\ Cardinality(adds) = Cardinality(Injectable(cm_out.file_before))
               /\ cm_out.count =
                      Cardinality(Injectable(cm_out.file_before) \ cm_out.rejected)

C32_Witness ==
    /\ cm_out.op = "load_cookies" /\ cm_out.looped /\ ~cm_out.aborted
    /\ \E i \in 1..Len(cm_out.file_before.records) :
           /\ "sameParty" \in cm_out.file_before.records[i].keys
           /\ i \in Injectable(cm_out.file_before)
    /\ \E i \in 1..Len(cm_out.file_before.records) :
           i \notin Injectable(cm_out.file_before)
    /\ cm_out.count = 1

\* C33 (as stated): a close_extra_windows() call made with at least one
\* window open, and with no window closed by anyone else meanwhile, leaves at
\* least one window open.
C33_NeverZeroWindows ==
    (/\ wm_out.op = "close_extra_windows"
     /\ wm_out.race = "none"
     /\ wm_out.before # {}) => br_windows # {}

\* C34 (as stated): close_extra_windows() on an attached manager with a
\* tracked original raises nothing, attempts every window other than the
\* original although some do not close, returns the number it closed and
\* leaves the focus on the original.
C34_CloseTolerant ==
    (/\ wm_out.op = "close_extra_windows"
     /\ wm_driver /\ br_alive
     /\ wm_out.original_before # NoHandle
     /\ wm_out.race = "none") =>
        /\ ~wm_out.raised
        /\ br_windows \cap (wm_out.before \ ({wm_out.original_before} \cup wm_out.stuck)) = {}
        /\ wm_out.count =
             Cardinality(wm_out.before \ ({wm_out.original_before} \cup wm_out.stuck))
        /\ br_focus = wm_out.original_before

\* C34 (amended): such a call raises nothing, closes every window other than
\* the original that can be closed and returns their number; the focus is on
\* the original when the original was open at the call, and otherwise on the
\* first window left, which is tracked as the original from then on, if a
\* window is left at all.
C34_CloseTolerantByCase ==
    (/\ wm_out.op = "close_extra_windows"
     /\ wm_driver /\ br_alive
     /\ wm_out.original_before # NoHandle
     /\ wm_out.race = "none") =>
        /\ ~wm_out.raised
        /\ br_windows =
             wm_out.before \cap ({wm_out.original_before} \cup wm_out.stuck)
        /\ wm_out.count =
             Cardinality(wm_out.before \ ({wm_out.original_before} \cup wm_out.stuck))
        /\ wm_out.original_before \in wm_out.before =>
               br_focus = wm_out.original_before /\ wm_original = br_focus
        /\ (wm_out.original_before \notin wm_out.before /\ br_windows # {}) =>
               br_focus = FirstHandle(br_windows) /\ wm_original = br_focus

C34_Witness ==
    /\ wm_out.op = "close_extra_windows" /\ wm_out.race = "none"
    /\ wm_out.original_before = 1
    /\ wm_out.before = {1, 2, 3}
    /\ wm_out.stuck = {2}
    /\ br_windows = {1, 2}
    /\ wm_out.count = 1
    /\ br_focus = 1

\* ------------------------------------------------ FileDownloader: calls
\* sys.float_info.max_exp: 2.0 ** n raises OverflowError from n = 1024 on
FLOAT_MAX_EXP == 1024

\* `retry_policy.exponential_base ** attempt` raises OverflowError
PowOverflows(base, n) == base >= 2 /\ n >= FLOAT_MAX_EXP

\* base ** n, or some number above cap when base ** n is above cap
RECURSIVE CappedPow(_, _, _, _)
CappedPow(base, n, acc, cap) ==
    IF n = 0 \/ acc > cap \/ base = 1 THEN acc
    ELSE CappedPow(base, n - 1, acc * base, cap)

Min(a, b) == IF a <= b THEN a ELSE b

\* `delay = min(base_delay * (exponential_base ** attempt), max_delay)`
Delay(policy, attempt) ==
    Min(policy.base_delay
            * CappedPow(policy.exponential_base, attempt, 1, policy.max_delay),
        policy.max_delay)

\* `if attempt < retry_policy.max_retries - 1:`
SleepsAfter(policy, attempt) == attempt < policy.max_retries - 1

\* The end of a call of thread t: download() returns or raises, and the
\* finally clause of download_stream() writes back the chunk size it saved.
DownloadEnds(t, op, original, ret, raised, made, sleeps, slept) ==
    /\ dl_call' = [dl_call EXCEPT ![t] = NoDownload]
    /\ dl_out' = [dl_out EXCEPT ![t] =
          [op |-> op, ret |-> ret, raised |-> raised, attempts |-> made,
           sleeps |-> sleeps, succeeded |-> ret, slept |-> slept]]
    /\ dl_chunk' = IF op = "download_stream" THEN original ELSE dl_chunk

\* The entry of download() in thread t, called directly (op = "download") or
\* from download_stream(); `for attempt in range(max_retries)` of no attempt
\* falls through to `return False`.
DownloadEnters(t, op, original, chunk) ==
    IF dl_policy.max_retries = 0
    THEN DownloadEnds(t, op, original, FALSE, FALSE, 0, 0, 0)
    ELSE /\ dl_call' = [dl_call EXCEPT ![t] =
               [pc |-> "loop", op |-> op, attempt |-> 0, sleeps |-> 0,
                slept |-> 0, original_chunk_size |-> original]]
         /\ dl_chunk' = chunk
         /\ UNCHANGED dl_out

nonDownloadVars ==
    <<controllerVars, proxyVars, windowVars, cookieVars, bridgeVars, agentVars,
      uowVars, pipelineVars>>

\* download(url, destination)
DownloadBegin(t) ==
    /\ dl_call[t].pc = "idle"
    /\ dl_left[t] > 0
    /\ dl_left' = [dl_left EXCEPT ![t] = @ - 1]
    /\ DownloadEnters(t, "download", 0, dl_chunk)
    /\ UNCHANGED <<nonDownloadVars, dl_policy>>

\* the chunk_size arguments of download_stream(); 0 stands for None
ChunkSizes == {0, 4096, 16384}

\* download_stream(url, destination, chunk_size) up to its call of download()
StreamBegin(t, chunk_size) ==
    /\ dl_call[t].pc = "idle"
    /\ dl_left[t] > 0
    /\ dl_left' = [dl_left EXCEPT ![t] = @ - 1]
    /\ DownloadEnters(t, "download_stream", dl_chunk,
                      IF chunk_size # 0 THEN chunk_size ELSE dl_chunk)
    /\ UNCHANGED <<nonDownloadVars, dl_policy>>

StrategyOutcomes == {"true", "false", "raises"}

\* One iteration of `for attempt in range(retry_policy.max_retries)`:
\* the strategy call, and the delay before the next attempt.
DownloadAttempt(t, outcome) ==
    LET call == dl_call[t]
        done == call.attempt + 1
    IN
    /\ call.pc = "loop"
    /\ IF outcome = "true"
       THEN DownloadEnds(t, call.op, call.original_chunk_size, TRUE, FALSE,
                         done, call.sleeps, call.slept)
       ELSE IF SleepsAfter(dl_policy, call.attempt)
       THEN IF PowOverflows(dl_policy.exponential_base, call.attempt)
            THEN DownloadEnds(t, call.op, call.original_chunk_size, FALSE, TRUE,
                              done, call.sleeps, call.slept)
            ELSE IF done < dl_policy.max_retries
            THEN /\ dl_call' = [dl_call EXCEPT ![t] =
                       [call EXCEPT !.attempt = done,
                                    !.sleeps = call.sleeps + 1,
                                    !.slept = Delay(dl_policy, call.attempt)]]
                 /\ UNCHANGED <<dl_out, dl_chunk>>
            ELSE DownloadEnds(t, call.op, call.original_chunk_size, FALSE, FALSE,
                              done, call.sleeps + 1, Delay(dl_policy, call.attempt))
       ELSE IF done < dl_policy.max_retries
       THEN /\ dl_call' = [dl_call EXCEPT ![t] = [call EXCEPT !.attempt = done]]
            /\ UNCHANGED <<dl_out, dl_chunk>>
       ELSE DownloadEnds(t, call.op, call.original_chunk_size, FALSE, FALSE,
                         done, call.sleeps, call.slept)
    /\ UNCHANGED <<nonDownloadVars, dl_policy, dl_left>>

NextDownload ==
    \E t \in DownloadThreads :
        \/ DownloadBegin(t)
        \/ \E chunk_size \in ChunkSizes : StreamBegin(t, chunk_size)
        \/ \E outcome \in StrategyOutcomes : DownloadAttempt(t, outcome)

\* max_retries of the policies: none, one, the default, and one beyond the
\* attempts whose delay a float can hold
RetryCounts == {0, 1, 3, FLOAT_MAX_EXP + 2}

InitDownloads(counts, calls) ==
    /\ ControllerIdle
    /\ ProxyIdle
    /\ WindowIdle
    /\ CookieIdle
    /\ bs_out = NoBridgeCall
    /\ cm_handle = [c \in Controllers |-> NoDriver]
    /\ AgentIdle
    /\ UowIdle
    /\ PipelineIdle
    /\ dl_chunk = DEFAULT_CHUNK
    /\ dl_policy \in {RetryPolicy(n) : n \in counts}
    /\ dl_call = [t \in DownloadThreads |-> NoDownload]
    /\ dl_out = [t \in DownloadThreads |-> NoDownloadCall]
    /\ dl_left = calls

\* one thread makes one call, under every policy
SpecDownload ==
    /\ InitDownloads(RetryCounts, [t \in DownloadThreads |-> IF t = 1 THEN 1 ELSE 0])
    /\ [][NextDownload]_vars

\* every thread makes MaxStreamCalls calls, under a policy of few attempts
SpecStream ==
    /\ InitDownloads({1, 2}, [t \in DownloadThreads |-> MaxStreamCalls])
    /\ [][NextDownload]_vars

\* C35 (as stated): a completed download() has raised nothing, has called
\* the strategy at most max_retries times, has returned true only from a
\* successful attempt and false only after max_retries attempts, and has
\* slept once between two attempts and never after the last.
C35_BoundedAttempts ==
    \A t \in DownloadThreads :
        dl_out[t].op = "download" =>
            /\ ~dl_out[t].raised
            /\ dl_out[t].attempts <= dl_policy.max_retries
            /\ dl_out[t].ret => dl_out[t].attempts >= 1
            /\ ~dl_out[t].ret => dl_out[t].attempts = dl_policy.max_retries
            /\ dl_out[t].sleeps =
                 IF dl_out[t].attempts = 0 THEN 0 ELSE dl_out[t].attempts - 1

\* C36 (as stated): whenever no download_stream() call is running,
\* config.chunk_size is the value it had before the first call.
C36_ChunkSizeRestored ==
    (\A t \in DownloadThreads : dl_call[t].pc = "idle") =>
        dl_chunk = DEFAULT_CHUNK

\* ------------------------------------------------------ UnitOfWork: calls
nonUowVars ==
    <<controllerVars, proxyVars, windowVars, cookieVars, bridgeVars, agentVars,
      downloadVars, pipelineVars>>

\* `with UnitOfWork(session) as uow:` on a new session
UowEnter ==
    /\ uw_pc = "outside"
    /\ uw_left > 0
    /\ uw_left' = uw_left - 1
    /\ uw_pc' = "inside"
    /\ uw_pending' = {}
    /\ uw_closed' = FALSE
    /\ uw_out' = NoExit
    /\ UNCHANGED <<nonUowVars, uw_db>>

\* uow.get_repository(Model).add(row) inside the block
UowAdd(r) ==
    /\ uw_pc = "inside"
    /\ r \notin uw_pending
    /\ uw_pending' = uw_pending \cup {r}
    /\ UNCHANGED <<nonUowVars, uw_pc, uw_db, uw_closed, uw_out, uw_left>>

\* commit(): what it leaves of the session and whether it raises; a failed
\* session.commit() is followed by session.rollback() and re-raised
Commit(pending, db, commitOk, rollbackOk) ==
    IF commitOk
    THEN [pending |-> {}, db |-> db \cup pending, raised |-> FALSE]
    ELSE [pending |-> IF rollbackOk THEN {} ELSE pending, db |-> db,
          raised |-> TRUE]

\* rollback()
Rollback(pending, db, rollbackOk) ==
    [pending |-> IF rollbackOk THEN {} ELSE pending, db |-> db,
     raised |-> ~rollbackOk]

\* `self.close()` is the statement after the if/else of __exit__: it is
\* reached when commit() or rollback() has returned
CloseReached(raised) == ~raised

\* __exit__(exc_type, ...): blockRaised says that the block raised
UowExit(blockRaised, commitOk, rollbackOk) ==
    LET e == IF blockRaised THEN Rollback(uw_pending, uw_db, rollbackOk)
             ELSE Commit(uw_pending, uw_db, commitOk, rollbackOk)
    IN
    /\ uw_pc = "inside"
    /\ blockRaised => commitOk
    /\ (~blockRaised /\ commitOk) => rollbackOk
    /\ uw_pc' = "outside"
    /\ uw_pending' = e.pending
    /\ uw_db' = e.db
    /\ uw_closed' = CloseReached(e.raised)
    /\ uw_out' = [called |-> TRUE, block_raised |-> blockRaised,
                  did |-> IF blockRaised THEN "rollback" ELSE "commit",
                  commit_failed |-> ~commitOk,
                  rollback_failed |-> ~rollbackOk,
                  raised |-> e.raised,
                  close_called |-> CloseReached(e.raised)]
    /\ UNCHANGED <<nonUowVars, uw_left>>

InitUow ==
    /\ ControllerIdle
    /\ ProxyIdle
    /\ WindowIdle
    /\ CookieIdle
    /\ bs_out = NoBridgeCall
    /\ cm_handle = [c \in Controllers |-> NoDriver]
    /\ AgentIdle
    /\ DownloadIdle
    /\ PipelineIdle
    /\ uw_pc = "outside"
    /\ uw_pending = {}
    /\ uw_db = {}
    /\ uw_closed = FALSE
    /\ uw_out = NoExit
    /\ uw_left = MaxBlocks

NextUow ==
    \/ UowEnter
    \/ \E r \in Rows : UowAdd(r)
    \/ \E blockRaised, commitOk, rollbackOk \in BOOLEAN :
           UowExit(blockRaised, commitOk, rollbackOk)

SpecUow == InitUow /\ [][NextUow]_vars

\* C37 (as stated): after the exit of a with block the UnitOfWork has
\* committed if the block raised nothing and rolled back if it raised, and
\* the session is closed, also when the commit or the rollback failed.
C37_ExitClosesSession ==
    uw_out.called =>
        /\ ~uw_out.block_raised => uw_out.did = "commit"
        /\ uw_out.block_raised => uw_out.did = "rollback"
        /\ uw_closed

\* --------------------------------------------- PipelineOrchestrator: calls
nonPipelineVars ==
    <<controllerVars, proxyVars, windowVars, cookieVars, bridgeVars, agentVars,
      downloadVars, uowVars>>

\* self.pipelines, in list order
Stages == {1, 2}

\* what pipeline.process() does with one item: returns the item, returns
\* None, raises DropItem, raises another exception
StageResults == {"item", "none", "drop", "error"}

RECURSIVE Through(_, _, _)
\* the loop of _process_through_pipelines from stage k on; seen lists the
\* stages whose process() received the item
Through(k, behaviour, seen) ==
    IF k \notin Stages
    THEN [seen |-> seen, outcome |-> "item"]
    ELSE IF behaviour[k] = "item"
         THEN Through(k + 1, behaviour, Append(seen, k))
         ELSE [seen |-> Append(seen, k), outcome |-> behaviour[k]]

\* Mutation: the loop goes on with the next stage after a stage returned None.
ProcessThroughPipelines_PastNone(behaviour) ==
    LET r == Through(1, behaviour, <<>>)
    IN  IF r.outcome = "none"
        THEN [seen |-> [k \in 1..Cardinality(Stages) |-> k], outcome |-> "none"]
        ELSE r

\* _process_through_pipelines(item)
ProcessThroughPipelines(behaviour) == Through(1, behaviour, <<>>)

\* Mutation: an item for which a stage returned None is not counted as dropped.
CountItem_NoneUncounted(stats, outcome) ==
    [total_items |-> stats.total_items + 1,
     processed_items |-> stats.processed_items + (IF outcome = "item" THEN 1 ELSE 0),
     dropped_items |-> stats.dropped_items + (IF outcome = "drop" THEN 1 ELSE 0),
     error_items |-> stats.error_items + (IF outcome = "error" THEN 1 ELSE 0)]

\* the counters after one turn of the item loop of execute()
CountItem(stats, outcome) ==
    [total_items |-> stats.total_items + 1,
     processed_items |-> stats.processed_items + (IF outcome = "item" THEN 1 ELSE 0),
     dropped_items |-> stats.dropped_items
                         + (IF outcome \in {"none", "drop"} THEN 1 ELSE 0),
     error_items |-> stats.error_items + (IF outcome = "error" THEN 1 ELSE 0)]

\* the except clauses around _process_through_pipelines in execute()
Handled == {"drop", "error"}

\* an exception of the item's processing that leaves the item loop
Escapes(outcome) == outcome \in {"drop", "error"} \ Handled

\* the initialize loop: the stages whose initialize() was called when the
\* one of stage initFails raises (0: none raises)
InitializeCalled(initFails) ==
    IF initFails = 0 THEN Stages ELSE {k \in Stages : k <= initFails}

\* the finalize loop in the finally clause: a finalize() that raises is
\* logged and the loop goes on
FinalizeCalled(finalFails) == Stages

\* execute(items) up to the item loop; the iterator holds n items
ExecuteBegin(initFails, n) ==
    /\ pl_pc = "idle"
    /\ n <= pl_left
    /\ pl_left' = pl_left - n
    /\ pl_initialized' = InitializeCalled(initFails)
    /\ pl_finalized' = {}
    /\ pl_fates' = <<>>
    /\ pl_result' = <<>>
    /\ IF initFails = 0
       THEN /\ pl_pc' = "items"
            /\ pl_out' = [NoExecute EXCEPT !.items = n,
                                           !.stats_before = pl_stats]
       ELSE /\ pl_pc' = "idle"
            /\ pl_out' = [NoExecute EXCEPT !.called = TRUE, !.raised = TRUE,
                                           !.initialized = InitializeCalled(initFails),
                                           !.init_failed = initFails,
                                           !.items = n,
                                           !.stats_before = pl_stats]
    /\ UNCHANGED <<nonPipelineVars, pl_stats>>

\* one turn of `for item in items`; the items are numbered in input order
ProcessItem(behaviour) ==
    LET item == Len(pl_fates) + 1
        r == ProcessThroughPipelines(behaviour)
    IN
    /\ pl_pc = "items"
    /\ item <= pl_out.items
    /\ pl_pc' = IF Escapes(r.outcome) THEN "raising" ELSE "items"
    /\ pl_stats' = IF Escapes(r.outcome)
                   THEN [pl_stats EXCEPT !.total_items = @ + 1]
                   ELSE CountItem(pl_stats, r.outcome)
    /\ pl_fates' = Append(pl_fates, [behaviour |-> behaviour, seen |-> r.seen,
                                     outcome |-> r.outcome])
    /\ pl_result' = IF r.outcome = "item" THEN Append(pl_result, item)
                    ELSE pl_result
    /\ UNCHANGED <<nonPipelineVars, pl_initialized, pl_finalized, pl_out,
                   pl_left>>

\* the end of the item loop, the finally clause and the return;
\* iterRaises: the iterator `items` raised instead of giving its next item
ExecuteEnd(finalFails, iterRaises) ==
    LET raises == iterRaises \/ pl_pc = "raising"
    IN
    /\ pl_pc \in {"items", "raising"}
    /\ pl_pc = "items" =>
           IF iterRaises THEN Len(pl_fates) < pl_out.items
           ELSE Len(pl_fates) = pl_out.items
    /\ pl_pc = "raising" => ~iterRaises
    /\ pl_pc' = "idle"
    /\ pl_finalized' = FinalizeCalled(finalFails)
    /\ pl_out' = [pl_out EXCEPT !.called = TRUE, !.raised = raises,
                                !.result = IF raises THEN <<>> ELSE pl_result,
                                !.fates = pl_fates,
                                !.initialized = pl_initialized,
                                !.finalized = FinalizeCalled(finalFails),
                                !.final_failed = finalFails]
    /\ UNCHANGED <<nonPipelineVars, pl_stats, pl_initialized, pl_fates,
                   pl_result, pl_left>>

InitPipeline ==
    /\ ControllerIdle
    /\ ProxyIdle
    /\ WindowIdle
    /\ CookieIdle
    /\ bs_out = NoBridgeCall
    /\ cm_handle = [c \in Controllers |-> NoDriver]
    /\ AgentIdle
    /\ DownloadIdle
    /\ UowIdle
    /\ pl_pc = "idle"
    /\ pl_stats = NoStats
    /\ pl_initialized = {}
    /\ pl_finalized = {}
    /\ pl_fates = <<>>
    /\ pl_result = <<>>
    /\ pl_out = NoExecute
    /\ pl_left = MaxItems + 1

NextPipeline ==
    \/ \E initFails \in {0} \cup Stages, n \in 0..MaxItems :
           ExecuteBegin(initFails, n)
    \/ \E behaviour \in [Stages -> StageResults] : ProcessItem(behaviour)
    \/ \E finalFails \in SUBSET Stages, iterRaises \in BOOLEAN :
           ExecuteEnd(finalFails, iterRaises)

SpecPipeline == InitPipeline /\ [][NextPipeline]_vars

\* the first stage that does not hand the item on (0: every stage does)
FirstStop(behaviour) ==
    IF \A k \in Stages : behaviour[k] = "item" THEN 0
    ELSE CHOOSE k \in Stages :
             /\ behaviour[k] # "item"
             /\ \A j \in Stages : j < k => behaviour[j] = "item"

\* the items of the call that went through every stage, in input order
Survivors(fates) ==
    SelectSeq([i \in 1..Len(fates) |-> i],
              LAMBDA i : FirstStop(fates[i].behaviour) = 0)

\* C38: every item goes through the stages in list order up to the first
\* stage that returns None, raises DropItem or raises another error; no
\* later stage sees it and it is not in the result; no such item ends the
\* loop, so a call that returns has processed every item, and its result is
\* the list of the surviving items in input order.
C38_StagesInOrder ==
    /\ pl_pc # "raising"
    /\ \A i \in 1..Len(pl_fates) :
           LET stop == FirstStop(pl_fates[i].behaviour)
               last == IF stop = 0 THEN Cardinality(Stages) ELSE stop
           IN  pl_fates[i].seen = [k \in 1..last |-> k]
    /\ pl_result = Survivors(pl_fates)
    /\ (pl_out.called /\ ~pl_out.raised) =>
           /\ Len(pl_out.fates) = pl_out.items
           /\ pl_out.result = Survivors(pl_out.fates)

\* a call has returned the second of two items only: the first one was
\* stopped by the first stage, whose successor would have taken it
C38_Witness ==
    /\ pl_out.called
    /\ ~pl_out.raised
    /\ pl_out.items = 2
    /\ pl_out.fates[1].behaviour[1] \in {"none", "drop", "error"}
    /\ pl_out.fates[1].behaviour[2] = "item"
    /\ pl_out.fates[1].seen = <<1>>
    /\ pl_out.result = <<2>>

\* C39: whenever no execute() is running, after any number of calls,
\* total_items = processed_items + dropped_items + error_items; and the
\* list a call returns is as long as the increase of processed_items
\* during that call.
C39_StatsAddUp ==
    /\ pl_pc = "idle" =>
           pl_stats.total_items = pl_stats.processed_items
                                    + pl_stats.dropped_items
                                    + pl_stats.error_items
    /\ (pl_out.called /\ ~pl_out.raised) =>
           Len(pl_out.result) = pl_stats.processed_items
                                  - pl_out.stats_before.processed_items

\* a later call has returned one item of two, the other one stopped by a
\* stage that returned None, after an earlier call had counted an item
C39_Witness ==
    /\ pl_pc = "idle"
    /\ pl_out.called
    /\ ~pl_out.raised
    /\ pl_out.stats_before.total_items >= 1
    /\ Len(pl_out.result) = 1
    /\ pl_stats.dropped_items >= 1
    /\ \E i \in 1..Len(pl_out.fates) : pl_out.fates[i].outcome = "none"

\* C40 (as stated): when execute() has returned or raised, every stage
\* whose initialize() it called has had its finalize() called.
C40_InitializedAreFinalized ==
    pl_out.called => pl_out.initialized \subseteq pl_out.finalized

====
